---- MODULE Spec2Model ----
(***************************************************************************)
(* The classifier service of zenyum-ai-poc (server.py) and the training   *)
(* pipeline it calls (process_json_images_improved.py), whose main() also  *)
(* fetches, normalizes, classifies and files the images of JSON cases.     *)
(*                                                                         *)
(* Strings that the code inspects character by character (labels: they are *)
(* directory names, sorted, stripped and lower-cased) are sequences of     *)
(* one-character strings.  PIL, CLIP and scikit-learn are outside the      *)
(* repository; they are represented by their contract:                     *)
(*   - an image file is what PIL and the encoder make of it: whether it   *)
(*     decodes, its embedding id, and the variant on which encoding raises; *)
(*     a decoded image handed to the normalizer is its size and pixels;    *)
(*   - LogisticRegression.fit is deterministic in its training data, needs *)
(*     a non-empty matrix and two classes, and sets classes_ to the sorted *)
(*     distinct labels; its coefficients are the per-class sample counts   *)
(*     of each embedding id, and predict_proba scores a query by them.     *)
(***************************************************************************)
EXTENDS Integers, Sequences, FiniteSets, TLC

(* ------------------------------ bounds --------------------------------- *)

\* Concurrent request handlers (threads of the server).
NumProcs == 2
\* Distinct embedding ids an image can have.
NumEmbeds == 2
\* Entries of os.listdir(OUTPUT_BASE_DIR) in the corpora of the one-worker
\* specification.
MaxCases == 2
\* Largest width and height of the photos handed to the normalizer and the
\* augmenter.
MaxSide == 3
\* Crop offsets are the multiples of 1/OffsetDen from -1/OffsetDen to
\* 1 + 1/OffsetDen.
OffsetDen == 4
\* Files per label directory in the corpora the loaders are called on alone.
MaxFiles == 2
\* Slides and images main() goes through in one run, over all JSON files.
MaxSlides == 1
MaxImages == 2

Procs == 1..NumProcs
Embeds == 1..NumEmbeds

\* Python's None.
None == [none |-> TRUE]

(* ------------------------------ strings -------------------------------- *)

\* The characters in use, in code-point order (space < upper < lower).
Alphabet ==
  <<" ", "F", "G", "H", "I", "L", "R", "T", "U",
    "a", "e", "f", "g", "h", "i", "k", "l", "n", "o", "p", "r", "t", "u", "w">>

Ord(c) == CHOOSE i \in 1..Len(Alphabet) : Alphabet[i] = c

\* str.lower() on one character.
LowerChar(c) ==
  CASE c = "F" -> "f" [] c = "G" -> "g" [] c = "H" -> "h" [] c = "I" -> "i" [] c = "L" -> "l"
    [] c = "R" -> "r" [] c = "T" -> "t" [] c = "U" -> "u" [] OTHER -> c

\* str.lower()
Lower(s) == [i \in 1..Len(s) |-> LowerChar(s[i])]

IsSpace(c) == c = " "

RECURSIVE LStrip(_)
LStrip(s) ==
  IF s # <<>> /\ IsSpace(Head(s)) THEN LStrip(Tail(s)) ELSE s

RECURSIVE RStrip(_)
RStrip(s) ==
  IF s # <<>> /\ IsSpace(s[Len(s)]) THEN RStrip(SubSeq(s, 1, Len(s) - 1)) ELSE s

\* str.strip()
Strip(s) == RStrip(LStrip(s))

\* Python's string order: lexicographic by code point, a prefix sorts first.
RECURSIVE StrLess(_, _)
StrLess(a, b) ==
  IF b = <<>> THEN FALSE
  ELSE IF a = <<>> THEN TRUE
  ELSE IF Head(a) # Head(b) THEN Ord(Head(a)) < Ord(Head(b))
  ELSE StrLess(Tail(a), Tail(b))

\* sorted(list(set(...))): the distinct strings of S in ascending order.
RECURSIVE Sorted(_)
Sorted(S) ==
  IF S = {} THEN <<>>
  ELSE LET m == CHOOSE x \in S : \A y \in S : x = y \/ StrLess(x, y)
       IN  <<m>> \o Sorted(S \ {m})

Range(s) == {s[i] : i \in 1..Len(s)}

\* Directory names used as labels, and the strings the handlers produce.
S_Left == <<"L", "e", "f", "t">>
S_Right == <<"R", "i", "g", "h", "t">>
S_left == <<"l", "e", "f", "t">>
S_right == <<"r", "i", "g", "h", "t">>
S_sp_left == <<" ", "l", "e", "f", "t">>
S_RIGHT_sp == <<"R", "I", "G", "H", "T", " ">>
S_Upper == <<"U", "p", "p", "e", "r">>
S_Upper_sp == <<"U", "p", "p", "e", "r", " ">>
S_Unknown == <<"U", "n", "k", "n", "o", "w", "n">>
S_Frontal == <<"F", "r", "o", "n", "t", "a", "l">>
S_Lower == <<"L", "o", "w", "e", "r">>

(* ---------------------------- file system ------------------------------ *)

\* What a file's bytes are to PIL and to the encoder: whether Image.open
\* decodes them, the encoder's output for the decoded image (0: the encoder
\* raises), and the first of the image's augmented variants, counted in the
\* order of AUGMENTATIONS, on which augmenting or encoding raises (0: none).
Corrupt == [decodes |-> FALSE, emb |-> 0, raises_at |-> 0]
NoEmbed == [decodes |-> TRUE, emb |-> 0, raises_at |-> 1]
Img(e) == [decodes |-> TRUE, emb |-> e, raises_at |-> 0]
\* An image whose variants before the k-th are embedded and whose k-th is
\* not (the encoder runs out of memory, the rotated image is too large).
Flaky(e, k) == [decodes |-> TRUE, emb |-> e, raises_at |-> k]
Contents == {Corrupt, NoEmbed} \cup {Img(e) : e \in Embeds}

\* fname.lower().endswith((".png", ".jpg", ".jpeg")); ext is the lower-cased
\* suffix of the file name.
HasImageExt(ext) == ext \in {".png", ".jpg", ".jpeg"}

ImageFile(ext, content) == [ext |-> ext, content |-> content]

\* An entry of a label-level directory listing.
LabelDir(name, files) == [name |-> name, isdir |-> TRUE, files |-> files]
StrayItem(name) == [name |-> name, isdir |-> FALSE, files |-> <<>>]

\* os.listdir of an existing directory, in the order the OS returns it.
Listing(items) == [items |-> items]

\* An entry of os.listdir(OUTPUT_BASE_DIR); pre / post are the listings of
\* <case>/preTreatment and <case>/postTreatment, or None when absent.
CaseDir(pre, post) == [isdir |-> TRUE, pre |-> pre, post |-> post]
StrayCase == [isdir |-> FALSE, pre |-> None, post |-> None]

\* categories_with_classification, in the order the code iterates it.
categories_with_classification == <<"preTreatment", "postTreatment">>

CategoryListing(case, category_folder) ==
  IF category_folder = "preTreatment" THEN case.pre ELSE case.post

\* The training corpora: the listing of OUTPUT_BASE_DIR (case entries) and of
\* LABELED_DIR (label entries), each None when the directory does not exist.
MkCorpus(output, labeled) == [output |-> output, labeled |-> labeled]

(* --------------------- process_json_images_improved -------------------- *)

AUGMENTATIONS ==
  <<"original", "flip", "rotate+10", "rotate-10", "bright", "contrast">>

TOP_K == 3

\* The two parallel lists a loader accumulates; raised: an exception left
\* the loader (it has no handler around its directory walk).
NoSamples == [X |-> <<>>, y |-> <<>>, raised |-> FALSE]
Raised == [X |-> <<>>, y |-> <<>>, raised |-> TRUE]

\* Appending what a later part of the walk produced; nothing runs after an
\* exception.
Extend(d, e) ==
  IF d.raised THEN d
  ELSE [X |-> d.X \o e.X, y |-> d.y \o e.y, raised |-> e.raised]

\* get_image_embedding(augment_image(image, aug)) for a decodable image whose
\* encoder output is e.
get_image_embedding(e, aug) == <<e, aug>>

\* Lines 203-215 / 242-253 for one file: one pair is appended per variant
\* until Image.open, augment_image or get_image_embedding raises, and the
\* except clause goes on to the next file.
SamplesOfFile(f, class_name) ==
  LET n == IF ~HasImageExt(f.ext) \/ ~f.content.decodes THEN 0
           ELSE IF f.content.raises_at = 0 THEN Len(AUGMENTATIONS)
           ELSE f.content.raises_at - 1
  IN  [X |-> [a \in 1..n |-> get_image_embedding(f.content.emb, AUGMENTATIONS[a])],
       y |-> [a \in 1..n |-> class_name],
       raised |-> FALSE]

\* A walk over the files of a directory that ends at the first file that
\* yields nothing.
RECURSIVE SamplesOfFilesAborting(_, _)
SamplesOfFilesAborting(files, class_name) ==
  IF files = <<>> THEN NoSamples
  ELSE IF SamplesOfFile(Head(files), class_name).X = <<>> THEN NoSamples
  ELSE Extend(SamplesOfFile(Head(files), class_name),
              SamplesOfFilesAborting(Tail(files), class_name))

RECURSIVE SamplesOfFiles(_, _)
SamplesOfFiles(files, class_name) ==
  IF files = <<>> THEN NoSamples
  ELSE Extend(SamplesOfFile(Head(files), class_name),
              SamplesOfFiles(Tail(files), class_name))

\* The directory names of one listing (os.path.isdir).
DirNames(listing) ==
  IF listing = None THEN {}
  ELSE {listing.items[i].name :
          i \in {j \in 1..Len(listing.items) : listing.items[j].isdir}}

\* Lines 180-191: every directory name at label level, all cases, both kinds.
DiscoveredCategories(corpus) ==
  LET cases == corpus.output.items
  IN  Sorted(UNION {DirNames(CategoryListing(cases[c], categories_with_classification[k])) :
                      c \in {i \in 1..Len(cases) : cases[i].isdir},
                      k \in 1..Len(categories_with_classification)})

\* Lines 201-215 for one class_name in one category listing: os.path.exists
\* also holds for a plain file of that name, whose os.listdir raises.
SamplesOfClass(listing, class_name) ==
  LET hits == {i \in 1..Len(listing.items) : listing.items[i].name = class_name}
  IN  IF hits = {} THEN NoSamples
      ELSE LET item == listing.items[CHOOSE i \in hits : TRUE]
           IN  IF item.isdir THEN SamplesOfFiles(item.files, class_name)
               ELSE Raised

RECURSIVE SamplesOfClasses(_, _)
SamplesOfClasses(listing, classes) ==
  IF classes = <<>> THEN NoSamples
  ELSE Extend(SamplesOfClass(listing, Head(classes)),
              SamplesOfClasses(listing, Tail(classes)))

\* Lines 197-215 for one case folder.
SamplesOfCase(case, classes) ==
  IF ~case.isdir THEN NoSamples
  ELSE LET of(k) ==
             LET listing == CategoryListing(case, categories_with_classification[k])
             IN  IF listing = None THEN NoSamples
                 ELSE SamplesOfClasses(listing, classes)
       IN  Extend(of(1), of(2))

RECURSIVE SamplesOfCases(_, _)
SamplesOfCases(cases, classes) ==
  IF cases = <<>> THEN NoSamples
  ELSE Extend(SamplesOfCase(Head(cases), classes),
              SamplesOfCases(Tail(cases), classes))

\* Lines 238-253 over the listing of LABELED_DIR.
RECURSIVE SamplesOfLabeled(_)
SamplesOfLabeled(items) ==
  IF items = <<>> THEN NoSamples
  ELSE Extend(IF Head(items).isdir
              THEN SamplesOfFiles(Head(items).files, Head(items).name)
              ELSE NoSamples,
              SamplesOfLabeled(Tail(items)))

\* The loaders return None (for "None, None") or the two lists.
load_labeled_data_fallback(corpus) ==
  IF corpus.labeled = None THEN None
  ELSE SamplesOfLabeled(corpus.labeled.items)

load_training_data_from_output(corpus) ==
  IF corpus.output = None THEN None
  ELSE LET d == SamplesOfCases(corpus.output.items, DiscoveredCategories(corpus))
       IN  IF d.raised THEN d
           ELSE IF d.X = <<>> THEN load_labeled_data_fallback(corpus)
           ELSE d

\* Lines 258-281; the break at line 273 ends the walk after the first entry
\* of os.listdir(OUTPUT_BASE_DIR).
get_classification_categories(corpus) ==
  LET categories ==
        IF corpus.output # None /\ corpus.output.items # <<>>
           /\ Head(corpus.output.items).isdir
        THEN UNION {DirNames(CategoryListing(Head(corpus.output.items),
                                             categories_with_classification[k])) :
                      k \in 1..Len(categories_with_classification)}
        ELSE {}
  IN  IF categories = {} /\ corpus.labeled # None
      THEN Sorted(DirNames(corpus.labeled))
      ELSE Sorted(categories)

\* LogisticRegression(...).fit(X, y): ValueError for an empty matrix and for
\* fewer than two classes; otherwise the fitted estimator.
FitRaises(X, y) == Len(X) = 0 \/ Cardinality(Range(y)) < 2

\* The length of the vectors get_image_embedding returns: the output width
\* of the encoder loaded at line 27 (ViT-B/32).
EmbeddingDim == 512

Fit(X, y) ==
  LET classes == Sorted(Range(y))
  IN  [classes_ |-> classes,
       coef_ |-> [i \in 1..Len(classes) |->
                   [e \in Embeds |->
                     Cardinality({k \in 1..Len(y) :
                                    y[k] = classes[i] /\ X[k][1] = e})]],
       n_features_in_ |-> EmbeddingDim]

\* Lines 292-304.  The outcome is the returned classifier, None, or an
\* exception leaving the function.
train_classifier(corpus) ==
  LET d == load_training_data_from_output(corpus)
  IN  IF d = None THEN [raised |-> FALSE, classifier |-> None]
      ELSE IF d.raised \/ FitRaises(d.X, d.y)
      THEN [raised |-> TRUE, classifier |-> None]
      ELSE [raised |-> FALSE, classifier |-> Fit(d.X, d.y)]

\* np.argsort(probs): the indices in ascending order of probability.  The
\* default kind is not a stable sort, so the order of equal probabilities
\* belongs to the NumPy build: "stable" keeps index order among equals (the
\* insertion sort used on short arrays), "unstable" is a build whose sort
\* kernel returns equals in the opposite order.
ArgsortKinds == {"stable", "unstable"}

Before(probs, kind, i, j) ==
  \/ probs[i] < probs[j]
  \/ probs[i] = probs[j] /\ (IF kind = "stable" THEN i <= j ELSE i >= j)

RECURSIVE ArgsortOf(_, _, _)
ArgsortOf(probs, kind, S) ==
  IF S = {} THEN <<>>
  ELSE LET m == CHOOSE i \in S : \A j \in S : Before(probs, kind, i, j)
       IN  <<m>> \o ArgsortOf(probs, kind, S \ {m})

Argsort(probs, kind) == ArgsortOf(probs, kind, DOMAIN probs)

\* seq[::-1]
Reversed(seq) == [i \in 1..Len(seq) |-> seq[Len(seq) + 1 - i]]

\* seq[:k]
Take(seq, k) == SubSeq(seq, 1, IF Len(seq) < k THEN Len(seq) ELSE k)

\* classifier.predict_proba(emb)[0]: one score per class, in classes_ order.
predict_proba(classifier, e) ==
  [i \in 1..Len(classifier.classes_) |-> classifier.coef_[i][e]]

\* predict_proba raises: AttributeError on an object that is no estimator,
\* ValueError on a vector whose length is not the one the estimator was
\* fitted with.
PredictProbaRaises(classifier) ==
  \/ "coef_" \notin DOMAIN classifier
  \/ classifier.n_features_in_ # EmbeddingDim

\* Lines 306-315 on a decoded image whose encoder output is e (0: the
\* encoder raises); any exception inside the try block yields "Unknown".
classify_image(classifier, e, kind) ==
  IF e \notin Embeds \/ PredictProbaRaises(classifier) THEN S_Unknown
  ELSE LET probs == predict_proba(classifier, e)
           top_indices == Take(Reversed(Argsort(probs, kind)), TOP_K)
           top_preds == [n \in 1..Len(top_indices) |->
                           <<classifier.classes_[top_indices[n]], probs[top_indices[n]]>>]
       IN  top_preds[1][1]

(* ----------------------------- PIL images ------------------------------ *)

\* A decoded image: its size and its pixels, row by row.  The photos of the
\* model have pairwise distinct pixels, so that every move of a pixel shows.
Photo(W, H) ==
  [width |-> W, height |-> H,
   px |-> [y \in 1..H |-> [x \in 1..W |-> (y - 1) * W + x]]]

\* The image a resampling or enhancing PIL operation makes of an image.
Derived(op, of) == [op |-> op, of |-> of]

\* image.crop((left, top, right, bottom)) for a box inside the image.
crop(im, box) ==
  [width |-> box[3] - box[1], height |-> box[4] - box[2],
   px |-> [y \in 1..(box[4] - box[2]) |->
            [x \in 1..(box[3] - box[1]) |-> im.px[box[2] + y][box[1] + x]]]]

\* image.rotate(-rotation_degrees, expand=True) for a quarter turn: the
\* transpose that turns the image clockwise.
RotateQuarter(im) ==
  [width |-> im.height, height |-> im.width,
   px |-> [y \in 1..im.width |->
            [x \in 1..im.height |-> im.px[im.height + 1 - x][y]]]]

\* ImageOps.mirror
mirror(im) ==
  [width |-> im.width, height |-> im.height,
   px |-> [y \in 1..im.height |->
            [x \in 1..im.width |-> im.px[y][im.width + 1 - x]]]]

Max(a, b) == IF a >= b THEN a ELSE b
Min(a, b) == IF a <= b THEN a ELSE b

\* int() of the fraction n / d: truncation toward zero.
Trunc(n, d) == IF n >= 0 THEN n \div d ELSE -((-n) \div d)

\* crop_properties: the four offsets, each the numerator of a fraction of
\* denominator OffsetDen.
Offsets == (-1)..(OffsetDen + 1)

CropProperties ==
  [leftOffset : Offsets, rightOffset : Offsets,
   topOffset : Offsets, bottomOffset : Offsets]

\* A box whose right and bottom bounds are clamped to the image only.
CropBoxUnfloored(W, H, c) ==
  LET left == Max(0, Min(Trunc(c.leftOffset * W, OffsetDen), W))
      right == Max(0, Min(Trunc(W * OffsetDen - c.rightOffset * W, OffsetDen), W))
      top == Max(0, Min(Trunc(c.topOffset * H, OffsetDen), H))
      bottom == Max(0, Min(Trunc(H * OffsetDen - c.bottomOffset * H, OffsetDen), H))
  IN  <<left, top, right, bottom>>

\* Lines 126-134: (left, top, right, bottom).
CropBox(W, H, c) ==
  LET left0 == Trunc(c.leftOffset * W, OffsetDen)
      right0 == Trunc(W * OffsetDen - c.rightOffset * W, OffsetDen)
      top0 == Trunc(c.topOffset * H, OffsetDen)
      bottom0 == Trunc(H * OffsetDen - c.bottomOffset * H, OffsetDen)
      left == Max(0, Min(left0, W))
      right == Max(left, Min(right0, W))
      top == Max(0, Min(top0, H))
      bottom == Max(top, Min(bottom0, H))
  IN  <<left, top, right, bottom>>

\* The rotation angles of the model: none, and a quarter turn.
Rotations == {0, 90}

\* Lines 116-145 on a decoded image: the box and the image returned.
crop_and_rotate_image(im, crop_properties, rotation_degrees) ==
  LET box == CropBox(im.width, im.height, crop_properties)
      cropped == crop(im, box)
  IN  [crop_properties |-> crop_properties,
       rotation_degrees |-> rotation_degrees,
       box |-> box,
       result |-> IF rotation_degrees # 0 THEN RotateQuarter(cropped) ELSE cropped]

\* The mode values handed to augment_image: the six of AUGMENTATIONS and
\* others.
Modes ==
  {"original", "flip", "rotate+10", "rotate-10", "bright", "contrast",
   "", "ORIGINAL", "Flip", "rotate+20", "zoom"}

\* An augment_image that compares the mode without regard to case.
augment_image_caseless(im, mode) ==
  IF mode \in {"flip", "Flip"} THEN mirror(im)
  ELSE IF mode = "rotate+10" THEN Derived("rotate(10, expand=True)", im)
  ELSE IF mode = "rotate-10" THEN Derived("rotate(-10, expand=True)", im)
  ELSE IF mode = "bright" THEN Derived("Brightness.enhance(1.2)", im)
  ELSE IF mode = "contrast" THEN Derived("Contrast.enhance(1.2)", im)
  ELSE im

\* Lines 147-158.
augment_image(im, mode) ==
  IF mode = "flip" THEN mirror(im)
  ELSE IF mode = "rotate+10" THEN Derived("rotate(10, expand=True)", im)
  ELSE IF mode = "rotate-10" THEN Derived("rotate(-10, expand=True)", im)
  ELSE IF mode = "bright" THEN Derived("Brightness.enhance(1.2)", im)
  ELSE IF mode = "contrast" THEN Derived("Contrast.enhance(1.2)", im)
  ELSE im

(* ------------------------------ server.py ------------------------------ *)

VARIABLES
  _classifier,        \* the module global: the resident model or None
  _classifier_lock,   \* Unlocked, or the handler holding the lock
  model_file,         \* the bytes at MODEL_PATH, None when no such file
  corpus,             \* the training directories on disk
  argsort_kind,       \* the NumPy build's order of equal keys
  pc,                 \* each handler's position
  classifier,         \* each handler's local "classifier"
  image,              \* the upload of the classify request being served
  predicted_label,    \* classify's local of that name
  response,           \* the response a finished handler sends
  before_restart,     \* the model resident when the process last went down
                      \* with the lock free, until the next save
  _clip_text_embs,    \* the module global: the prompt-embedding matrix or None
  _clip_text_lock,    \* Unlocked, or the handler holding that lock
  text_embs,          \* classify_clip's local of that name
  raw_image,          \* the decoded photo the batch functions are applied to
  crop_call,          \* the last call of crop_and_rotate_image: arguments,
                      \* crop box and result
  augment_call,       \* the last call of augment_image: mode and result
  training_data,      \* what the last call of a loader returned
  taxonomy_call,      \* what the last call of get_classification_categories
                      \* returned
  fetch_call,         \* the last call of download_image: what the network
                      \* did, the value returned, the file left at the path
  pipeline,           \* main(): its position and its locals
  saved_files,        \* the files main() has saved, in order
  provisioned         \* the folders create_classification_folders has made

\* The state of the zero-shot path.
clip_vars == <<_clip_text_embs, _clip_text_lock, text_embs>>

\* The state of the functions of process_json_images_improved when they are
\* called outside the server.
pipeline_vars == <<taxonomy_call, fetch_call, pipeline, saved_files, provisioned>>

batch_vars == <<raw_image, crop_call, augment_call, training_data, pipeline_vars>>

vars ==
  <<_classifier, _classifier_lock, model_file, corpus, argsort_kind, pc,
    classifier, image, predicted_label, response, before_restart,
    _clip_text_embs, _clip_text_lock, text_embs,
    raw_image, crop_call, augment_call, training_data,
    taxonomy_call, fetch_call, pipeline, saved_files, provisioned>>

Unlocked == 0

\* pickle.dump / pickle.load of a fitted estimator: the byte stream names the
\* class and carries its attributes in order.
pickle_dump(obj) ==
  [bytes |-> <<"LogisticRegression", obj.classes_, obj.coef_, obj.n_features_in_>>]

\* Byte streams pickle.load raises on (truncated, or naming a class that
\* cannot be imported).
PickleLoadRaises(f) == f.bytes[1] \notin {"LogisticRegression", "dict"}

\* A loader that rebuilds the estimator with its class list in reverse.
pickle_load_reordered(f) ==
  [classes_ |-> [i \in 1..Len(f.bytes[2]) |-> f.bytes[2][Len(f.bytes[2]) + 1 - i]],
   coef_ |-> f.bytes[3], n_features_in_ |-> f.bytes[4]]

\* pickle.load rebuilds whatever object the stream describes: an estimator,
\* or an object of another kind (here a dict).
pickle_load(f) ==
  IF f.bytes[1] = "LogisticRegression"
  THEN [classes_ |-> f.bytes[2], coef_ |-> f.bytes[3], n_features_in_ |-> f.bytes[4]]
  ELSE [keys |-> f.bytes[2]]

\* A loader that answers a missing file with a default estimator.
_load_classifier_default(resident, file) ==
  LET default == [classes_ |-> <<S_Unknown>>, coef_ |-> <<[e \in Embeds |-> 0]>>,
                  n_features_in_ |-> EmbeddingDim]
  IN  IF resident # None
      THEN [global |-> resident, result |-> resident, raised |-> FALSE]
      ELSE IF file = None
      THEN [global |-> default, result |-> default, raised |-> FALSE]
      ELSE [global |-> pickle_load(file), result |-> pickle_load(file),
            raised |-> FALSE]

\* A loader that reads MODEL_PATH on every call.
_load_classifier_rereading(resident, file) ==
  IF file = None
  THEN [global |-> resident, result |-> resident, raised |-> FALSE]
  ELSE IF PickleLoadRaises(file)
  THEN [global |-> resident, result |-> None, raised |-> TRUE]
  ELSE [global |-> pickle_load(file), result |-> pickle_load(file),
        raised |-> FALSE]

\* Lines 65-73: the new value of the global and the value returned, or an
\* exception of pickle.load leaving the function before the assignment.
_load_classifier_from_disk(resident, file) ==
  IF resident # None
  THEN [global |-> resident, result |-> resident, raised |-> FALSE]
  ELSE IF file = None
  THEN [global |-> resident, result |-> None, raised |-> FALSE]
  ELSE IF PickleLoadRaises(file)
  THEN [global |-> resident, result |-> None, raised |-> TRUE]
  ELSE [global |-> pickle_load(file), result |-> pickle_load(file),
        raised |-> FALSE]

\* A save that leaves MODEL_PATH as an empty estimator.
_save_classifier_truncated(obj) ==
  pickle_dump([classes_ |-> <<>>, coef_ |-> <<>>, n_features_in_ |-> EmbeddingDim])

\* Lines 76-78.
_save_classifier_to_disk(obj) == pickle_dump(obj)

\* A swap that compares the label without lower-casing it.
FinalLabelCaseSensitive(label) ==
  LET label_str == Strip(label)
  IN  IF label_str = S_left THEN S_Right
      ELSE IF label_str = S_right THEN S_Left
      ELSE label_str

\* Lines 125-132.
FinalLabel(label) ==
  LET label_str == Strip(label)
      lower == Lower(label_str)
  IN  IF lower = S_left THEN S_Right
      ELSE IF lower = S_right THEN S_Left
      ELSE label_str

HTTPException(status_code, detail) ==
  [status |-> status_code, detail |-> detail, prediction |-> <<>>, classes |-> <<>>]

\* An exception no handler catches: the framework answers 500.
InternalServerError == HTTPException(500, "Internal Server Error")

TrainedResponse(classes) ==
  [status |-> 200, detail |-> "trained", prediction |-> <<>>, classes |-> classes]

PredictionResponse(final_label) ==
  [status |-> 200, detail |-> "prediction", prediction |-> final_label, classes |-> <<>>]

\* Line 30.
_clip_labels == <<S_Frontal, S_Left, S_Right, S_Upper, S_Lower>>

\* Lines 43-48 (line 53 names this list; its identifier is printed there with
\* a blank inside).
templates ==
  <<"a dental {label} view photo", "a clinical {label} intraoral image",
    "a {label} occlusal view", "a photo of {label} teeth view">>

\* CLIP's text and image encoders by their contract: a prompt embedding is a
\* direction and a length, the length counted in units of 1/Len(templates);
\* the similarity of an image embedding with a direction is one of
\* SimilarityLevels values, several directions may share it.
SimilarityLevels == 4

Similarity(e, dir) == (e * dir + 1) % SimilarityLevels

\* Lines 53-57 for the label at index i: the mean of the unit vectors of its
\* prompts, which is shorter than a unit vector unless the prompts agree.
encode_text_mean(i) == [dir |-> i, len |-> 1 + (i % Len(templates))]

\* Line 59: torch.stack(label_text_embs).
stack == [rows |-> [i \in 1..Len(_clip_labels) |-> encode_text_mean(i)]]

\* Line 60: every row divided by its norm.
RowNormalize(m) ==
  [rows |-> [i \in DOMAIN m.rows |-> [m.rows[i] EXCEPT !.len = Len(templates)]]]

\* Lines 156-159: softmax keeps the order of the logits im @ text_embs.T.
Logits(e, m) ==
  [i \in DOMAIN m.rows |-> Similarity(e, m.rows[i].dir) * m.rows[i].len]

\* probs.argmax(): the first index of the maximum.
argmax(probs) ==
  CHOOSE i \in DOMAIN probs :
    /\ \A j \in DOMAIN probs : probs[j] <= probs[i]
    /\ \A j \in 1..(i - 1) : probs[j] < probs[i]

\* A zero-shot answer that passes the label through classify's swap.
ClipPredictionSwapped(e, m) == FinalLabel(_clip_labels[argmax(Logits(e, m))])

\* Lines 160-161.
ClipPrediction(e, m) == _clip_labels[argmax(Logits(e, m))]

ClipFailed == HTTPException(500, "CLIP classification failed")
InvalidImageData == HTTPException(400, "Invalid image data")
UploadRejected == HTTPException(400, "Please upload a JPEG or PNG image")

\* A lock that never blocks.
CanAcquireUnguarded == TRUE

\* threading.Lock.acquire: blocks while another handler holds the lock.
CanAcquire == _classifier_lock = Unlocked

(* ------------------------------ corpora -------------------------------- *)

Jpg(content) == ImageFile(".jpg", content)

\* Label directories as they occur in the corpora below.
LeftDir == LabelDir(S_Left, <<Jpg(Corrupt), Jpg(Img(1)), ImageFile(".txt", Img(1))>>)
RightDir == LabelDir(S_Right, <<ImageFile(".png", Img(NumEmbeds))>>)
LowLeftDir == LabelDir(S_sp_left, <<Jpg(Img(1))>>)
UpRightDir == LabelDir(S_RIGHT_sp, <<Jpg(Img(1))>>)
UpperDir == LabelDir(S_Upper_sp, <<Jpg(Img(1)), Jpg(NoEmbed)>>)

\* The states of the training directories the environment moves between
\* while the server runs.
ServiceCorpora ==
  { MkCorpus(None, Listing(<<LeftDir, RightDir>>)),
    MkCorpus(Listing(<<CaseDir(Listing(<<LeftDir>>), None)>>), None),
    MkCorpus(Listing(<<CaseDir(Listing(<<LeftDir>>), Listing(<<RightDir>>))>>), None),
    MkCorpus(Listing(<<CaseDir(Listing(<<LowLeftDir>>), None),
                       CaseDir(None, Listing(<<UpRightDir, UpperDir>>))>>),
             Listing(<<LeftDir>>)) }

\* The corpora a single worker is started on: every output listing of at
\* most MaxCases entries, each a stray file or a case folder with one of the
\* preTreatment and one of the postTreatment listings below, against every
\* state of labeled_samples.
EmptyUpperDir == LabelDir(S_Upper, <<>>)

PreListings ==
  {None, Listing(<<LeftDir>>), Listing(<<RightDir, LeftDir>>),
   Listing(<<StrayItem(S_Left)>>)}

PostListings == {None, Listing(<<RightDir>>), Listing(<<EmptyUpperDir>>)}

CaseEntries ==
  {StrayCase} \cup {CaseDir(pre, post) : pre \in PreListings, post \in PostListings}

SeqsUpTo(S, n) == UNION {[1..k -> S] : k \in 0..n}

OutputListings ==
  {None} \cup {Listing(cases) : cases \in SeqsUpTo(CaseEntries, MaxCases)}

LabeledListings ==
  {None, Listing(<<>>), Listing(<<LeftDir, RightDir>>),
   Listing(<<LowLeftDir, UpRightDir, UpperDir>>)}

TrainCorpora ==
  {MkCorpus(output, labeled) : output \in OutputListings, labeled \in LabeledListings}

(* ------------------------------ handlers ------------------------------- *)

\* The uploads a client sends: content type (or "none"), file name (or "")
\* and bytes.
ContentTypes == {"none", "image/jpeg", "IMAGE/PNG", "application/pdf"}
Filenames == {"", "scan.JPG", "scan.pdf"}

\* The body of an upload while nobody has read it: whether its bytes decode
\* as an image.  file.read() (line 114) hands out bytes of that kind.
Upload(decodes) == [decodes |-> decodes]

BytesOf(upload) == {content \in Contents : content.decodes = upload.decodes}

\* Lines 102-106: the content type ends with jpeg, jpg or png, or else the
\* file name ends with .jpg, .jpeg or .png (both lower-cased first).
UploadAccepted(content_type, filename) ==
  \/ content_type \in {"image/jpeg", "IMAGE/PNG"}
  \/ filename \in {"scan.JPG"}

InitServer(corpora) ==
  /\ _classifier = None
  /\ _classifier_lock = Unlocked
  /\ model_file = None
  /\ corpus \in corpora
  /\ argsort_kind \in ArgsortKinds
  /\ pc = [p \in Procs |-> "idle"]
  /\ classifier = [p \in Procs |-> None]
  /\ image = [p \in Procs |-> None]
  /\ predicted_label = [p \in Procs |-> <<>>]
  /\ response = [p \in Procs |-> None]
  /\ before_restart = None
  /\ _clip_text_embs = None
  /\ _clip_text_lock = Unlocked
  /\ text_embs = [p \in Procs |-> None]

\* main() has not been started.
InitPipeline ==
  /\ taxonomy_call = None
  /\ fetch_call = None
  /\ pipeline = None
  /\ saved_files = <<>>
  /\ provisioned = {}

\* The server started, no batch function called.
InitWith(corpora) ==
  /\ InitServer(corpora)
  /\ raw_image = None
  /\ crop_call = None
  /\ augment_call = None
  /\ training_data = None
  /\ InitPipeline

Init == InitWith(ServiceCorpora)

\* The handler returns or raises: resp is sent and its locals are gone.
Finish(p, resp) ==
  /\ pc' = [pc EXCEPT ![p] = "done"]
  /\ response' = [response EXCEPT ![p] = resp]
  /\ classifier' = [classifier EXCEPT ![p] = None]
  /\ image' = [image EXCEPT ![p] = None]
  /\ predicted_label' = [predicted_label EXCEPT ![p] = <<>>]

\* POST /train arrives and the handler reaches line 89.
TrainRequest(p) ==
  /\ pc[p] = "idle"
  /\ pc' = [pc EXCEPT ![p] = "train_lock"]
  /\ UNCHANGED <<_classifier, _classifier_lock, model_file, corpus, argsort_kind,
                 classifier, image, predicted_label, response, before_restart>>
  /\ UNCHANGED <<clip_vars, batch_vars>>

\* Line 89: with _classifier_lock.
TrainAcquire(p) ==
  /\ pc[p] = "train_lock"
  /\ CanAcquire
  /\ _classifier_lock' = p
  /\ pc' = [pc EXCEPT ![p] = "train_fit"]
  /\ UNCHANGED <<_classifier, model_file, corpus, argsort_kind, classifier,
                 image, predicted_label, response, before_restart>>
  /\ UNCHANGED <<clip_vars, batch_vars>>

\* A train that drops the resident model before it fits the new one.
TrainFitClearsFirst(p) ==
  /\ pc[p] = "train_fit"
  /\ LET r == train_classifier(corpus)
     IN  IF r.raised \/ r.classifier = None
         THEN /\ Finish(p, IF r.raised THEN InternalServerError
                           ELSE HTTPException(400,
                                  "Failed to train classifier (no training data found)"))
              /\ _classifier_lock' = Unlocked
              /\ _classifier' = None
         ELSE /\ classifier' = [classifier EXCEPT ![p] = r.classifier]
              /\ pc' = [pc EXCEPT ![p] = "train_save"]
              /\ UNCHANGED <<_classifier, _classifier_lock, response, image,
                             predicted_label>>
  /\ UNCHANGED <<model_file, corpus, argsort_kind, before_restart>>
  /\ UNCHANGED <<clip_vars, batch_vars>>

\* Lines 90-92; leaving the with block by an exception releases the lock.
TrainFit(p) ==
  /\ pc[p] = "train_fit"
  /\ LET r == train_classifier(corpus)
     IN  IF r.raised
         THEN /\ Finish(p, InternalServerError)
              /\ _classifier_lock' = Unlocked
         ELSE IF r.classifier = None
         THEN /\ Finish(p, HTTPException(400,
                     "Failed to train classifier (no training data found)"))
              /\ _classifier_lock' = Unlocked
         ELSE /\ classifier' = [classifier EXCEPT ![p] = r.classifier]
              /\ pc' = [pc EXCEPT ![p] = "train_save"]
              /\ UNCHANGED <<_classifier_lock, response, image, predicted_label>>
  /\ UNCHANGED <<_classifier, model_file, corpus, argsort_kind, before_restart>>
  /\ UNCHANGED <<clip_vars, batch_vars>>

\* Line 93.
TrainSave(p) ==
  /\ pc[p] = "train_save"
  /\ model_file' = _save_classifier_to_disk(classifier[p])
  /\ before_restart' = None
  /\ pc' = [pc EXCEPT ![p] = "train_set"]
  /\ UNCHANGED <<_classifier, _classifier_lock, corpus, argsort_kind, classifier,
                 image, predicted_label, response>>
  /\ UNCHANGED <<clip_vars, batch_vars>>

\* What a write that ended early leaves at MODEL_PATH.
TruncatedFile == [bytes |-> <<"truncated", <<>>, <<>>, 0>>]

\* A failing save whose exception leaves the lock taken.
TrainSaveFailsHoldingLock(p) ==
  /\ pc[p] = "train_save"
  /\ model_file' \in {model_file, TruncatedFile}
  /\ before_restart' = IF model_file' = model_file THEN before_restart ELSE None
  /\ Finish(p, InternalServerError)
  /\ UNCHANGED <<_classifier, _classifier_lock, corpus, argsort_kind>>
  /\ UNCHANGED <<clip_vars, batch_vars>>

\* Line 93 raising: open() fails and the file is as it was, or pickle.dump
\* fails after open() emptied it; the exception leaves the with block, which
\* releases the lock, and the global is not assigned.
TrainSaveFails(p) ==
  /\ pc[p] = "train_save"
  /\ model_file' \in {model_file, TruncatedFile}
  /\ before_restart' = IF model_file' = model_file THEN before_restart ELSE None
  /\ Finish(p, InternalServerError)
  /\ _classifier_lock' = Unlocked
  /\ UNCHANGED <<_classifier, corpus, argsort_kind>>
  /\ UNCHANGED <<clip_vars, batch_vars>>

\* Lines 94-95.
TrainSet(p) ==
  /\ pc[p] = "train_set"
  /\ _classifier' = classifier[p]
  /\ pc' = [pc EXCEPT ![p] = "train_unlock"]
  /\ UNCHANGED <<_classifier_lock, model_file, corpus, argsort_kind, classifier,
                 image, predicted_label, response, before_restart>>
  /\ UNCHANGED <<clip_vars, batch_vars>>

\* The end of the with block, then lines 96-97.
TrainUnlock(p) ==
  /\ pc[p] = "train_unlock"
  /\ _classifier_lock' = Unlocked
  /\ Finish(p, TrainedResponse(classifier[p].classes_))
  /\ UNCHANGED <<_classifier, model_file, corpus, argsort_kind, before_restart>>
  /\ UNCHANGED <<clip_vars, batch_vars>>

\* POST /classify arrives: lines 102-106.
ClassifyRequest(p) ==
  /\ pc[p] = "idle"
  /\ \E content_type \in ContentTypes, filename \in Filenames, decodes \in BOOLEAN :
       IF UploadAccepted(content_type, filename)
       THEN /\ pc' = [pc EXCEPT ![p] = "classify_lock"]
            /\ image' = [image EXCEPT ![p] = Upload(decodes)]
            /\ UNCHANGED <<response, classifier, predicted_label>>
       ELSE Finish(p, UploadRejected)
  /\ UNCHANGED <<_classifier, _classifier_lock, model_file, corpus, argsort_kind,
                 before_restart>>
  /\ UNCHANGED <<clip_vars, batch_vars>>

\* Line 108: with _classifier_lock.
ClassifyAcquire(p) ==
  /\ pc[p] = "classify_lock"
  /\ CanAcquire
  /\ _classifier_lock' = p
  /\ pc' = [pc EXCEPT ![p] = "classify_load"]
  /\ UNCHANGED <<_classifier, model_file, corpus, argsort_kind, classifier,
                 image, predicted_label, response, before_restart>>
  /\ UNCHANGED <<clip_vars, batch_vars>>

\* Line 109; an exception leaving the with block releases the lock.
ClassifyLoad(p) ==
  /\ pc[p] = "classify_load"
  /\ LET r == _load_classifier_from_disk(_classifier, model_file)
     IN  IF r.raised
         THEN /\ Finish(p, InternalServerError)
              /\ _classifier_lock' = Unlocked
              /\ UNCHANGED _classifier
         ELSE /\ _classifier' = r.global
              /\ classifier' = [classifier EXCEPT ![p] = r.result]
              /\ pc' = [pc EXCEPT ![p] = "classify_unlock"]
              /\ UNCHANGED <<_classifier_lock, image, predicted_label, response>>
  /\ UNCHANGED <<model_file, corpus, argsort_kind, before_restart>>
  /\ UNCHANGED <<clip_vars, batch_vars>>

\* The end of the with block at line 109.
ClassifyUnlock(p) ==
  /\ pc[p] = "classify_unlock"
  /\ _classifier_lock' = Unlocked
  /\ pc' = [pc EXCEPT ![p] = "classify_check"]
  /\ UNCHANGED <<_classifier, model_file, corpus, argsort_kind, classifier,
                 image, predicted_label, response, before_restart>>
  /\ UNCHANGED <<clip_vars, batch_vars>>

\* A prediction that reads the global again instead of the handler's local.
ClassifyPredictResident(p) ==
  /\ pc[p] = "classify_check"
  /\ IF classifier[p] = None
     THEN Finish(p, HTTPException(400, "Model not trained yet. Call /train first."))
     ELSE \E content \in BytesOf(image[p]) :
            IF ~content.decodes
            THEN Finish(p, InvalidImageData)
            ELSE /\ image' = [image EXCEPT ![p] = content]
                 /\ predicted_label' =
                      [predicted_label EXCEPT
                         ![p] = classify_image(_classifier, content.emb, argsort_kind)]
                 /\ pc' = [pc EXCEPT ![p] = "classify_label"]
                 /\ UNCHANGED <<response, classifier>>
  /\ UNCHANGED <<_classifier, _classifier_lock, model_file, corpus, argsort_kind,
                 before_restart>>
  /\ UNCHANGED <<clip_vars, batch_vars>>

\* Lines 111-123; the upload's bytes are read in line 114.
ClassifyPredict(p) ==
  /\ pc[p] = "classify_check"
  /\ IF classifier[p] = None
     THEN Finish(p, HTTPException(400, "Model not trained yet. Call /train first."))
     ELSE \E content \in BytesOf(image[p]) :
            IF ~content.decodes
            THEN Finish(p, InvalidImageData)
            ELSE /\ image' = [image EXCEPT ![p] = content]
                 /\ predicted_label' =
                      [predicted_label EXCEPT
                         ![p] = classify_image(classifier[p], content.emb, argsort_kind)]
                 /\ pc' = [pc EXCEPT ![p] = "classify_label"]
                 /\ UNCHANGED <<response, classifier>>
  /\ UNCHANGED <<_classifier, _classifier_lock, model_file, corpus, argsort_kind,
                 before_restart>>
  /\ UNCHANGED <<clip_vars, batch_vars>>

\* Lines 125-134.
ClassifyRespond(p) ==
  /\ pc[p] = "classify_label"
  /\ Finish(p, PredictionResponse(FinalLabel(predicted_label[p])))
  /\ UNCHANGED <<_classifier, _classifier_lock, model_file, corpus, argsort_kind,
                 before_restart>>
  /\ UNCHANGED <<clip_vars, batch_vars>>

\* classify_clip returns or raises: as Finish, and its text_embs is gone.
ClipFinish(p, resp) ==
  /\ Finish(p, resp)
  /\ text_embs' = [text_embs EXCEPT ![p] = None]

\* POST /classify_clip arrives: lines 139-143.
ClipRequest(p) ==
  /\ pc[p] = "idle"
  /\ \E content_type \in ContentTypes, filename \in Filenames, decodes \in BOOLEAN :
       IF UploadAccepted(content_type, filename)
       THEN /\ pc' = [pc EXCEPT ![p] = "clip_fast"]
            /\ image' = [image EXCEPT ![p] = Upload(decodes)]
            /\ UNCHANGED <<response, classifier, predicted_label, text_embs>>
       ELSE ClipFinish(p, UploadRejected)
  /\ UNCHANGED <<_classifier, _classifier_lock, model_file, corpus, argsort_kind,
                 before_restart, _clip_text_embs, _clip_text_lock>>
  /\ UNCHANGED batch_vars

\* Lines 35-36: the read of the global outside the lock.
ClipFastPath(p) ==
  /\ pc[p] = "clip_fast"
  /\ IF _clip_text_embs # None
     THEN /\ text_embs' = [text_embs EXCEPT ![p] = _clip_text_embs]
          /\ pc' = [pc EXCEPT ![p] = "clip_read"]
     ELSE /\ pc' = [pc EXCEPT ![p] = "clip_lock"]
          /\ UNCHANGED text_embs
  /\ UNCHANGED <<_classifier, _classifier_lock, model_file, corpus, argsort_kind,
                 classifier, image, predicted_label, response, before_restart,
                 _clip_text_embs, _clip_text_lock>>
  /\ UNCHANGED batch_vars

\* Line 39: with _clip_text_lock.
ClipAcquire(p) ==
  /\ pc[p] = "clip_lock"
  /\ _clip_text_lock = Unlocked
  /\ _clip_text_lock' = p
  /\ pc' = [pc EXCEPT ![p] = "clip_recheck"]
  /\ UNCHANGED <<_classifier, _classifier_lock, model_file, corpus, argsort_kind,
                 classifier, image, predicted_label, response, before_restart,
                 _clip_text_embs, text_embs>>
  /\ UNCHANGED batch_vars

\* Lines 40-41: the second look, inside the lock; returning releases it.
ClipRecheck(p) ==
  /\ pc[p] = "clip_recheck"
  /\ IF _clip_text_embs # None
     THEN /\ text_embs' = [text_embs EXCEPT ![p] = _clip_text_embs]
          /\ _clip_text_lock' = Unlocked
          /\ pc' = [pc EXCEPT ![p] = "clip_read"]
     ELSE /\ pc' = [pc EXCEPT ![p] = "clip_stack"]
          /\ UNCHANGED <<text_embs, _clip_text_lock>>
  /\ UNCHANGED <<_classifier, _classifier_lock, model_file, corpus, argsort_kind,
                 classifier, image, predicted_label, response, before_restart,
                 _clip_text_embs>>
  /\ UNCHANGED batch_vars

\* A computation of the prompt embeddings that clears the trained model.
ClipStackDropsModel(p) ==
  /\ pc[p] = "clip_stack"
  /\ _clip_text_embs' = stack
  /\ _classifier' = None
  /\ pc' = [pc EXCEPT ![p] = "clip_norm"]
  /\ UNCHANGED <<_classifier_lock, model_file, corpus, argsort_kind,
                 classifier, image, predicted_label, response, before_restart,
                 _clip_text_lock, text_embs>>
  /\ UNCHANGED batch_vars

\* Lines 43-59: the global is assigned the stacked means.
ClipStack(p) ==
  /\ pc[p] = "clip_stack"
  /\ _clip_text_embs' = stack
  /\ pc' = [pc EXCEPT ![p] = "clip_norm"]
  /\ UNCHANGED <<_classifier, _classifier_lock, model_file, corpus, argsort_kind,
                 classifier, image, predicted_label, response, before_restart,
                 _clip_text_lock, text_embs>>
  /\ UNCHANGED batch_vars

\* Line 60: the global is assigned the row-normalized matrix.
ClipNormalize(p) ==
  /\ pc[p] = "clip_norm"
  /\ _clip_text_embs' = RowNormalize(_clip_text_embs)
  /\ pc' = [pc EXCEPT ![p] = "clip_return"]
  /\ UNCHANGED <<_classifier, _classifier_lock, model_file, corpus, argsort_kind,
                 classifier, image, predicted_label, response, before_restart,
                 _clip_text_lock, text_embs>>
  /\ UNCHANGED batch_vars

\* Line 62 and the end of the with block; line 145 binds the result.
ClipReturn(p) ==
  /\ pc[p] = "clip_return"
  /\ text_embs' = [text_embs EXCEPT ![p] = _clip_text_embs]
  /\ _clip_text_lock' = Unlocked
  /\ pc' = [pc EXCEPT ![p] = "clip_read"]
  /\ UNCHANGED <<_classifier, _classifier_lock, model_file, corpus, argsort_kind,
                 classifier, image, predicted_label, response, before_restart,
                 _clip_text_embs>>
  /\ UNCHANGED batch_vars

\* Lines 147-151.
ClipRead(p) ==
  /\ pc[p] = "clip_read"
  /\ \E content \in BytesOf(image[p]) :
       IF ~content.decodes
       THEN ClipFinish(p, InvalidImageData)
       ELSE /\ image' = [image EXCEPT ![p] = content]
            /\ pc' = [pc EXCEPT ![p] = "clip_predict"]
            /\ UNCHANGED <<response, classifier, predicted_label, text_embs>>
  /\ UNCHANGED <<_classifier, _classifier_lock, model_file, corpus, argsort_kind,
                 before_restart, _clip_text_embs, _clip_text_lock>>
  /\ UNCHANGED batch_vars

\* Lines 153-165: encode_image raising is caught at line 162.
ClipRespond(p) ==
  /\ pc[p] = "clip_predict"
  /\ ClipFinish(p, IF image[p].emb \notin Embeds THEN ClipFailed
                   ELSE PredictionResponse(ClipPrediction(image[p].emb, text_embs[p])))
  /\ UNCHANGED <<_classifier, _classifier_lock, model_file, corpus, argsort_kind,
                 before_restart, _clip_text_embs, _clip_text_lock>>
  /\ UNCHANGED batch_vars

HealthResponse(present) ==
  [status |-> 200, detail |-> "ok", prediction |-> <<>>, classes |-> <<>>,
   model_present |-> present]

\* A probe that looks at the resident model instead of the file.
has_model_resident == _classifier # None

\* Line 83: os.path.exists(MODEL_PATH).
has_model == model_file # None

\* GET /health: lines 81-84.  The handler takes no lock and has no locals.
Health(p) ==
  /\ pc[p] = "idle"
  /\ Finish(p, HealthResponse(has_model))
  /\ UNCHANGED <<_classifier, _classifier_lock, model_file, corpus, argsort_kind,
                 before_restart>>
  /\ UNCHANGED <<clip_vars, batch_vars>>

\* The worker that sent the response takes the next request.
Return(p) ==
  /\ pc[p] = "done"
  /\ pc' = [pc EXCEPT ![p] = "idle"]
  /\ response' = [response EXCEPT ![p] = None]
  /\ UNCHANGED <<_classifier, _classifier_lock, model_file, corpus, argsort_kind,
                 classifier, image, predicted_label, before_restart>>
  /\ UNCHANGED <<clip_vars, batch_vars>>

\* The server process ends and is started again: lines 25-26 run anew, the
\* requests in flight are lost, the files stay.
Restart ==
  /\ _classifier' = None
  /\ _classifier_lock' = Unlocked
  /\ pc' = [p \in Procs |-> "idle"]
  /\ classifier' = [p \in Procs |-> None]
  /\ image' = [p \in Procs |-> None]
  /\ predicted_label' = [p \in Procs |-> <<>>]
  /\ response' = [p \in Procs |-> None]
  /\ before_restart' =
       IF _classifier_lock # Unlocked THEN None
       ELSE IF _classifier # None THEN _classifier
       ELSE before_restart
  /\ _clip_text_embs' = None
  /\ _clip_text_lock' = Unlocked
  /\ text_embs' = [p \in Procs |-> None]
  /\ UNCHANGED <<model_file, corpus, argsort_kind>>
  /\ UNCHANGED batch_vars

\* Files found at MODEL_PATH that this build did not write: an estimator
\* fitted on the vectors of a wider encoder, a pickled object that is no
\* estimator, and a stream pickle.load cannot read.
WiderEmbeddingDim == 768

ForeignArtifacts ==
  { [bytes |-> <<"LogisticRegression", <<S_Left, S_Right>>,
                 <<[e \in Embeds |-> 1], [e \in Embeds |-> 0]>>, WiderEmbeddingDim>>],
    [bytes |-> <<"dict", <<S_Left, S_Right>>, <<>>, 0>>],
    [bytes |-> <<"truncated", <<>>, <<>>, 0>>] }

\* Someone puts such a file at MODEL_PATH (a deployment that ships the
\* artifact of another build).
DeployArtifact ==
  /\ model_file' \in ForeignArtifacts \ {model_file}
  /\ before_restart' = None
  /\ UNCHANGED <<_classifier, _classifier_lock, corpus, argsort_kind, pc,
                 classifier, image, predicted_label, response>>
  /\ UNCHANGED <<clip_vars, batch_vars>>

\* Someone files, moves or removes images under output/ or labeled_samples/.
EditCorpus ==
  /\ corpus' \in ServiceCorpora \ {corpus}
  /\ UNCHANGED <<_classifier, _classifier_lock, model_file, argsort_kind, pc,
                 classifier, image, predicted_label, response, before_restart>>
  /\ UNCHANGED <<clip_vars, batch_vars>>

TrainHandler(p) ==
  \/ TrainRequest(p) \/ TrainAcquire(p) \/ TrainFit(p) \/ TrainSave(p)
  \/ TrainSet(p) \/ TrainUnlock(p)

ClassifyHandler(p) ==
  \/ ClassifyRequest(p) \/ ClassifyAcquire(p) \/ ClassifyLoad(p)
  \/ ClassifyUnlock(p) \/ ClassifyPredict(p) \/ ClassifyRespond(p)

ClipHandler(p) ==
  \/ ClipRequest(p) \/ ClipFastPath(p) \/ ClipAcquire(p) \/ ClipRecheck(p)
  \/ ClipStack(p) \/ ClipNormalize(p) \/ ClipReturn(p)
  \/ ClipRead(p) \/ ClipRespond(p)

Handler(p) == TrainHandler(p) \/ ClassifyHandler(p) \/ Return(p)

Next ==
  \/ \E p \in Procs : Handler(p)
  \/ Restart
  \/ EditCorpus

Spec == Init /\ [][Next]_vars

\* One worker serving one request after the other, started on any of the
\* corpora of TrainCorpora.
InitOneWorker == InitWith(TrainCorpora)

NextOneWorker == Handler(1) \/ Restart

SpecOneWorker == InitOneWorker /\ [][NextOneWorker]_vars

\* One worker serving train and classify requests while artifacts of other
\* builds may be put at MODEL_PATH.
NextArtifact == Handler(1) \/ Restart \/ DeployArtifact

SpecArtifact == Init /\ [][NextArtifact]_vars

\* The zero-shot path next to training: every worker serves train and
\* classify_clip requests.
NextZeroShot ==
  \/ \E p \in Procs : TrainHandler(p) \/ ClipHandler(p) \/ Return(p)
  \/ Restart

SpecZeroShot == Init /\ [][NextZeroShot]_vars

\* Health probes next to training and classification.
NextHealth ==
  \/ \E p \in Procs : TrainHandler(p) \/ ClassifyHandler(p) \/ Health(p) \/ Return(p)
  \/ Restart

SpecHealth == Init /\ [][NextHealth]_vars

\* Training and classification where saving the model may fail.
NextLock ==
  \E p \in Procs :
    TrainHandler(p) \/ TrainSaveFails(p) \/ ClassifyHandler(p) \/ Return(p)

\* The steps of a handler inside a with block, after the fit.
InsideLock(p) ==
  \/ TrainSave(p) \/ TrainSaveFails(p) \/ TrainSet(p) \/ TrainUnlock(p)
  \/ ClassifyLoad(p) \/ ClassifyUnlock(p)

\* WF_vars(TrainFit(p)), with ENABLED <<TrainFit(p)>>_vars written as the
\* guard of TrainFit: the step is possible exactly at "train_fit", where
\* every branch of TrainFit leaves that position.
FairFit(p) ==
  []<>(pc[p] # "train_fit") \/ []<><<TrainFit(p)>>_vars

\* Fair scheduling: a thread that can take its next step inside a with block
\* takes it, and a thread waiting for the lock gets it if the lock is free
\* again and again.
FairLock ==
  \A p \in Procs :
    /\ FairFit(p)
    /\ WF_vars(InsideLock(p))
    /\ SF_vars(TrainAcquire(p) \/ ClassifyAcquire(p))

\* The order of equal probabilities plays no part in locking.
InitLock == Init /\ argsort_kind = "stable"

SpecLock == InitLock /\ [][NextLock]_vars /\ FairLock

\* classify_clip is a coroutine (line 138): it runs on the one event-loop
\* thread of the process from its start to the await of line 147 and from the
\* resumption to its end, and no other coroutine runs in between.  These are
\* the positions inside such a stretch.
OnLoop ==
  {"clip_fast", "clip_lock", "clip_recheck", "clip_stack", "clip_norm",
   "clip_return", "clip_predict"}

\* Handlers that run as threads, so that any of them may take the next step.
LoopFreeThreads(p) == TRUE

\* The event loop can start or resume p, or is running p.
LoopFree(p) == \A q \in Procs \ {p} : pc[q] \notin OnLoop

\* The zero-shot requests as the event loop runs them, next to the trains of
\* the thread pool (train is a plain function, line 88).
NextEventLoop ==
  \E p \in Procs :
    \/ TrainHandler(p)
    \/ LoopFree(p) /\ ClipHandler(p)
    \/ Return(p)

SpecEventLoop == Init /\ [][NextEventLoop]_vars

\* The models this build fits on the corpora of ServiceCorpora.
TrainedModels ==
  {train_classifier(c).classifier : c \in ServiceCorpora} \ {None}

\* Someone puts the file of a model trained elsewhere by this build at
\* MODEL_PATH.
DeployModel ==
  /\ model_file' \in {_save_classifier_to_disk(m) : m \in TrainedModels} \ {model_file}
  /\ before_restart' = None
  /\ UNCHANGED <<_classifier, _classifier_lock, corpus, argsort_kind, pc,
                 classifier, image, predicted_label, response>>
  /\ UNCHANGED <<clip_vars, batch_vars>>

\* One worker serving train and classify requests while model files come and
\* change at MODEL_PATH.
NextStore == Handler(1) \/ Restart \/ DeployArtifact \/ DeployModel

SpecStore == Init /\ [][NextStore]_vars

(* ---------------- the normalizer and the augmenter alone ---------------- *)

Photos == {Photo(W, H) : W \in 1..MaxSide, H \in 1..MaxSide}

\* The server is not running; a photo has been decoded (line 118, line 207).
InitImage ==
  /\ InitServer({MkCorpus(None, None)})
  /\ argsort_kind = "stable"
  /\ raw_image \in Photos
  /\ crop_call = None
  /\ augment_call = None
  /\ training_data = None
  /\ InitPipeline

\* crop_and_rotate_image is called on the photo (line 356).
CropAndRotate ==
  /\ crop_call = None /\ augment_call = None
  /\ \E crop_properties \in CropProperties, rotation_degrees \in Rotations :
       crop_call' = crop_and_rotate_image(raw_image, crop_properties, rotation_degrees)
  /\ UNCHANGED <<_classifier, _classifier_lock, model_file, corpus, argsort_kind,
                 pc, classifier, image, predicted_label, response, before_restart,
                 raw_image, augment_call, training_data>>
  /\ UNCHANGED <<clip_vars, pipeline_vars>>

\* augment_image is called on the photo (line 209, line 248).
Augment ==
  /\ crop_call = None /\ augment_call = None
  /\ \E mode \in Modes :
       augment_call' = [mode |-> mode, result |-> augment_image(raw_image, mode)]
  /\ UNCHANGED <<_classifier, _classifier_lock, model_file, corpus, argsort_kind,
                 pc, classifier, image, predicted_label, response, before_restart,
                 raw_image, crop_call, training_data>>
  /\ UNCHANGED <<clip_vars, pipeline_vars>>

NextImage == CropAndRotate \/ Augment

SpecImage == InitImage /\ [][NextImage]_vars

(* -------------------------- the loaders alone --------------------------- *)

\* The files of the label directories below.
LoaderFiles ==
  {Jpg(Corrupt), Jpg(NoEmbed), Jpg(Img(1)), Jpg(Flaky(1, 3)),
   ImageFile(".png", Img(NumEmbeds)), ImageFile(".txt", Img(1))}

\* output/ holds one case whose preTreatment has a Left directory of at most
\* MaxFiles files and whose postTreatment is absent, has a Right directory,
\* or has a plain file named Left; labeled_samples/ is absent or has two
\* directories.
LoaderOutputs ==
  {None, Listing(<<>>)}
    \cup {Listing(<<CaseDir(Listing(<<LabelDir(S_Left, files)>>), post)>>) :
            files \in SeqsUpTo(LoaderFiles, MaxFiles),
            post \in {None, Listing(<<RightDir>>), Listing(<<StrayItem(S_Left)>>)}}

LoaderLabeled ==
  {None,
   Listing(<<RightDir,
             LabelDir(S_Upper, <<Jpg(Corrupt), Jpg(Flaky(1, 2)), Jpg(Img(1))>>)>>)}

LoaderCorpora ==
  {MkCorpus(output, labeled) : output \in LoaderOutputs, labeled \in LoaderLabeled}

\* The server is not running; the training directories are on disk.
InitLoader ==
  /\ InitServer(LoaderCorpora)
  /\ argsort_kind = "stable"
  /\ raw_image = None
  /\ crop_call = None
  /\ augment_call = None
  /\ training_data = None
  /\ InitPipeline

CallOf(fn, result) == [fn |-> fn, result |-> result]

\* load_training_data_from_output() is called (line 294).
LoadTrainingData ==
  /\ training_data = None
  /\ training_data' = CallOf("load_training_data_from_output",
                             load_training_data_from_output(corpus))
  /\ UNCHANGED <<_classifier, _classifier_lock, model_file, corpus, argsort_kind,
                 pc, classifier, image, predicted_label, response, before_restart,
                 raw_image, crop_call, augment_call>>
  /\ UNCHANGED <<clip_vars, pipeline_vars>>

\* load_labeled_data_fallback() is called on its own.
LoadLabeledData ==
  /\ training_data = None
  /\ training_data' = CallOf("load_labeled_data_fallback",
                             load_labeled_data_fallback(corpus))
  /\ UNCHANGED <<_classifier, _classifier_lock, model_file, corpus, argsort_kind,
                 pc, classifier, image, predicted_label, response, before_restart,
                 raw_image, crop_call, augment_call>>
  /\ UNCHANGED <<clip_vars, pipeline_vars>>

NextLoader == LoadTrainingData \/ LoadLabeledData

SpecLoader == InitLoader /\ [][NextLoader]_vars

(* ---------------------- taxonomy discovery alone ----------------------- *)

\* The server is not running; the training directories are on disk.
InitTaxonomy ==
  /\ InitServer(TrainCorpora)
  /\ argsort_kind = "stable"
  /\ raw_image = None
  /\ crop_call = None
  /\ augment_call = None
  /\ training_data = None
  /\ InitPipeline

\* get_classification_categories() is called (line 284).
GetClassificationCategories ==
  /\ taxonomy_call = None
  /\ taxonomy_call' = [categories |-> get_classification_categories(corpus)]
  /\ UNCHANGED <<_classifier, _classifier_lock, model_file, corpus, argsort_kind,
                 pc, classifier, image, predicted_label, response, before_restart,
                 raw_image, crop_call, augment_call, training_data,
                 fetch_call, pipeline, saved_files, provisioned>>
  /\ UNCHANGED clip_vars

NextTaxonomy == GetClassificationCategories

SpecTaxonomy == InitTaxonomy /\ [][NextTaxonomy]_vars

(* -------------------------- the image fetch ---------------------------- *)

\* The file at a path: None when there is none, else what its bytes are: an
\* image ("image"), something else ("not_image"), the part of a body that
\* was written before the write failed ("partial"), or nothing ("empty", the
\* file tempfile.NamedTemporaryFile leaves at line 348).
FileOf(bytes) == [bytes |-> bytes]

\* What the network and the disk do to one request: requests.get raises;
\* the status is an error; the body is a small HTML page; the body is cut or
\* the disk fails while the file is written; the body arrives and is no
\* image; the body arrives and is an image.
Responses ==
  {"connect_error", "http_error", "html", "write_fails", "not_image", "image"}

\* Lines 32-36.
urls_to_try == <<"uc?export=download&id=", "uc?id=&export=download", "uc?id=">>

\* Lines 44-76 from the url at index k on; file is what is at output_path.
\* There is no raise_for_status here: an error status comes with an HTML
\* page and is skipped at line 58 as one.
RECURSIVE DriveTry(_, _, _)
DriveTry(responses, k, file) ==
  IF k > Len(urls_to_try) THEN [returned |-> FALSE, file |-> file]
  ELSE CASE responses[k] \in {"connect_error", "http_error", "html"}
              -> DriveTry(responses, k + 1, file)
         [] responses[k] = "write_fails"
              -> DriveTry(responses, k + 1, FileOf("partial"))
         [] responses[k] = "not_image"
              -> DriveTry(responses, k + 1, None)
         [] OTHER -> [returned |-> TRUE, file |-> FileOf("image")]

\* Lines 30-80.
download_google_drive_file(responses, file) == DriveTry(responses, 1, file)

\* Lines 82-114: url is "drive" when it holds 'drive.google.com' and 'id=';
\* responses are what the requests made, in order, meet.
download_image(url, responses, file) ==
  IF url = "drive" THEN download_google_drive_file(responses, file)
  ELSE CASE responses[1] \in {"connect_error", "http_error"}
              -> [returned |-> FALSE, file |-> file]
         [] responses[1] = "write_fails"
              -> [returned |-> FALSE, file |-> FileOf("partial")]
         [] responses[1] \in {"html", "not_image"}
              -> [returned |-> FALSE, file |-> None]
         [] OTHER -> [returned |-> TRUE, file |-> FileOf("image")]

\* download_image is called (line 352) with a path where there is no file
\* or the empty temporary file.
DownloadImage ==
  /\ fetch_call = None
  /\ \E url \in {"drive", "direct"}, before \in {None, FileOf("empty")},
        responses \in [1..Len(urls_to_try) -> Responses] :
       LET r == download_image(url, responses, before)
       IN  fetch_call' = [url |-> url,
                          responses |-> IF url = "drive" THEN responses
                                        ELSE SubSeq(responses, 1, 1),
                          before |-> before,
                          returned |-> r.returned, file |-> r.file]
  /\ UNCHANGED <<_classifier, _classifier_lock, model_file, corpus, argsort_kind,
                 pc, classifier, image, predicted_label, response, before_restart,
                 raw_image, crop_call, augment_call, training_data,
                 taxonomy_call, pipeline, saved_files, provisioned>>
  /\ UNCHANGED clip_vars

\* Neither the server nor main() is running.
InitFetch ==
  /\ InitServer({MkCorpus(None, None)})
  /\ argsort_kind = "stable"
  /\ raw_image = None
  /\ crop_call = None
  /\ augment_call = None
  /\ training_data = None
  /\ InitPipeline

NextFetch == DownloadImage

SpecFetch == InitFetch /\ [][NextFetch]_vars

(* -------------------------- the batch pipeline ------------------------- *)

OUTPUT_BASE_DIR == "output"

\* Lines 321-328: category_mapping.get(category); "" where get returns None.
category_mapping(category) ==
  CASE category = "PRE_TREATMENT" -> "preTreatment"
    [] category = "POST_TREATMENT" -> "postTreatment"
    [] category = "PRE_TREATMENT_RADIOGRAPH" -> "pre_treatment_radiograph"
    [] category = "SMILE_SUMMARY" -> "smile_summary"
    [] OTHER -> ""

\* slide.get('assumedCategory', 'UNKNOWN') over the slides of a case.
SlideCategories ==
  {"PRE_TREATMENT", "POST_TREATMENT", "PRE_TREATMENT_RADIOGRAPH", "SMILE_SUMMARY",
   "UNKNOWN"}

\* Lines 390-395: the categories process_images_from_slide is called for.
Dispatched(category) ==
  category \in {"PRE_TREATMENT", "POST_TREATMENT", "PRE_TREATMENT_RADIOGRAPH",
                "SMILE_SUMMARY"}

\* A dispatch that hands every slide over as pass-through data.
should_classify_never(category) == FALSE

\* Lines 390-395: the should_classify argument of the call.
should_classify(category) == category \in {"PRE_TREATMENT", "POST_TREATMENT"}

\* An entry of slide['images']: its assumedCategory ("" when it has none),
\* whether it has a downloadUrl, its fileName ("" when it has none), whether
\* download_image brings it, what PIL and the encoder make of the bytes
\* brought, and whether the processed image can be written (an empty crop
\* cannot).
LogoImage ==
  [assumedCategory |-> "ZENYUM_LOGO", downloadUrl |-> TRUE, fileName |-> "logo.png",
   fetched |-> TRUE, content |-> Img(1), saves |-> TRUE]
NoUrlImage ==
  [assumedCategory |-> "", downloadUrl |-> FALSE, fileName |-> "nourl.jpg",
   fetched |-> FALSE, content |-> Corrupt, saves |-> TRUE]
UnfetchedImage ==
  [assumedCategory |-> "", downloadUrl |-> TRUE, fileName |-> "gone.jpg",
   fetched |-> FALSE, content |-> Corrupt, saves |-> TRUE]
UnreadableImage ==
  [assumedCategory |-> "", downloadUrl |-> TRUE, fileName |-> "cut.jpg",
   fetched |-> TRUE, content |-> Corrupt, saves |-> TRUE]
EmptyCropImage ==
  [assumedCategory |-> "", downloadUrl |-> TRUE, fileName |-> "empty.jpg",
   fetched |-> TRUE, content |-> NoEmbed, saves |-> FALSE]
UnencodableImage ==
  [assumedCategory |-> "", downloadUrl |-> TRUE, fileName |-> "odd.jpg",
   fetched |-> TRUE, content |-> NoEmbed, saves |-> TRUE]
NamedImage ==
  [assumedCategory |-> "", downloadUrl |-> TRUE, fileName |-> "front.jpg",
   fetched |-> TRUE, content |-> Img(1), saves |-> TRUE]
UnnamedImage ==
  [assumedCategory |-> "", downloadUrl |-> TRUE, fileName |-> "",
   fetched |-> TRUE, content |-> Img(NumEmbeds), saves |-> TRUE]

ImageInfos ==
  {LogoImage, NoUrlImage, UnfetchedImage, UnreadableImage, EmptyCropImage,
   UnencodableImage, NamedImage, UnnamedImage}

\* The tree under output/ as main() works on it: the listing, and the names
\* of its entries in listing order.
Tree(output, listdir) == [output |-> output, listdir |-> listdir]

IndexOf(listdir, name) ==
  IF \E k \in 1..Len(listdir) : listdir[k] = name
  THEN CHOOSE k \in 1..Len(listdir) : listdir[k] = name
  ELSE 0

InsertAt(seq, at, x) == SubSeq(seq, 1, at - 1) \o <<x>> \o SubSeq(seq, at, Len(seq))

\* os.makedirs(os.path.join(OUTPUT_BASE_DIR, case_name, category_folder
\* [, class_name]), exist_ok=True); class_name is <<>> where the path ends at
\* the category folder.  A file on the way raises; a new case folder shows
\* in os.listdir(OUTPUT_BASE_DIR) at the place at, which the OS decides.
makedirs(fs, case_name, category_folder, class_name, at) ==
  LET k == IndexOf(fs.listdir, case_name)
      items == fs.output.items
      case == IF k = 0 THEN CaseDir(None, None) ELSE items[k]
      walked == category_folder \in Range(categories_with_classification)
      old == IF walked /\ CategoryListing(case, category_folder) # None
             THEN CategoryListing(case, category_folder).items
             ELSE <<>>
      there == {i \in 1..Len(old) : old[i].name = class_name}
      listing == Listing(IF class_name = <<>> \/ there # {} THEN old
                         ELSE Append(old, LabelDir(class_name, <<>>)))
      made == IF ~walked THEN case
              ELSE IF category_folder = "preTreatment"
              THEN [case EXCEPT !.pre = listing]
              ELSE [case EXCEPT !.post = listing]
  IN  IF \/ (k # 0 /\ ~items[k].isdir)
         \/ (class_name # <<>> /\ \E i \in there : ~old[i].isdir)
      THEN [raised |-> TRUE, fs |-> fs]
      ELSE [raised |-> FALSE,
            fs |-> IF k = 0
                   THEN Tree(Listing(InsertAt(items, at, made)),
                             InsertAt(fs.listdir, at, case_name))
                   ELSE Tree(Listing([items EXCEPT ![k] = made]), fs.listdir)]

\* Lines 286-288 over the class names from index n on; made: the folders the
\* calls have made or found.
RECURSIVE MakeClassFolders(_, _, _, _, _, _)
MakeClassFolders(fs, classification_categories, n, case_name, category_folder, at) ==
  IF n > Len(classification_categories)
  THEN [raised |-> FALSE, fs |-> fs, made |-> {}]
  ELSE LET r == makedirs(fs, case_name, category_folder,
                         classification_categories[n], at)
       IN  IF r.raised THEN [raised |-> TRUE, fs |-> fs, made |-> {}]
           ELSE LET rest == MakeClassFolders(r.fs, classification_categories, n + 1,
                                             case_name, category_folder, at)
                IN  [raised |-> rest.raised, fs |-> rest.fs,
                     made |-> {[case_name |-> case_name,
                                category_folder |-> category_folder,
                                class_name |-> classification_categories[n]]}
                                \cup rest.made]

\* Lines 283-290 with the corpora c on disk.
create_classification_folders(c, listdir, case_name, category_folder, at) ==
  MakeClassFolders(Tree(c.output, listdir), get_classification_categories(c), 1,
                   case_name, category_folder, at)

\* processed_image.save(output_path, 'JPEG', quality=95) into a label folder
\* of the walked tree: the folder has one more image file.
save(fs, case_name, category_folder, class_name, content) ==
  LET k == IndexOf(fs.listdir, case_name)
      case == fs.output.items[k]
      old == CategoryListing(case, category_folder).items
      d == CHOOSE i \in 1..Len(old) : old[i].name = class_name
      listing == Listing([old EXCEPT ![d].files = Append(@, ImageFile(".jpg", content))])
      made == IF category_folder = "preTreatment"
              THEN [case EXCEPT !.pre = listing]
              ELSE [case EXCEPT !.post = listing]
  IN  Tree(Listing([fs.output.items EXCEPT ![k] = made]), fs.listdir)

\* Line 346: the fileName of the entry, or the default name.
FileName(image_info, case_name, category, i) ==
  IF image_info.fileName # "" THEN <<image_info.fileName>>
  ELSE <<case_name, category, "img", i + 1, ".jpg">>

\* Lines 342-374 for the image at index i of a slide: the tree afterwards and
\* the file saved, if any.  written: the paths saved before.
process_image(fs, used_classifier, kind, case_name, category, classify, i, image_info, at, written) ==
  LET category_folder == category_mapping(category)
      nothing == [fs |-> fs, saved |-> <<>>]
  IN  IF image_info.assumedCategory = "ZENYUM_LOGO" \/ ~image_info.downloadUrl
      THEN nothing
      ELSE IF ~image_info.fetched THEN nothing
      ELSE IF ~image_info.content.decodes THEN nothing
      ELSE LET predicted_class ==
                 IF classify /\ used_classifier # None
                 THEN classify_image(used_classifier, image_info.content.emb, kind)
                 ELSE <<>>
               final_output_dir ==
                 <<OUTPUT_BASE_DIR, case_name, category_folder>>
                   \o (IF predicted_class = <<>> THEN <<>> ELSE <<predicted_class>>)
               output_path ==
                 final_output_dir \o <<FileName(image_info, case_name, category, i)>>
               dirs == makedirs(fs, case_name, category_folder, predicted_class, at)
           IN  IF dirs.raised THEN nothing
               ELSE IF ~image_info.saves THEN [fs |-> dirs.fs, saved |-> <<>>]
               ELSE [fs |-> IF \/ predicted_class = <<>>
                               \/ category_folder
                                    \notin Range(categories_with_classification)
                               \/ output_path \in written
                            THEN dirs.fs
                            ELSE save(dirs.fs, case_name, category_folder,
                                      predicted_class, image_info.content),
                     saved |-> <<[category |-> category, image_info |-> image_info,
                                  path |-> output_path]>>]

\* The state of the server, which main() does not touch.
service_vars ==
  <<_classifier, _classifier_lock, model_file, argsort_kind, pc, classifier,
    image, predicted_label, response, before_restart, clip_vars,
    raw_image, crop_call, augment_call, training_data, taxonomy_call, fetch_call>>

\* main() at position at with the classifier it trained.
Pipeline(at, trained) ==
  [pc |-> at, classifier |-> trained,
   listdir |-> IF corpus.output = None THEN <<>>
               ELSE [k \in 1..Len(corpus.output.items) |-> k],
   n_slides |-> 0, n_images |-> 0, case_name |-> 0, category |-> "",
   should_classify |-> FALSE, i |-> 0]

\* Lines 402-424: main() up to its loop; has_json: inputJsons/ exists and
\* holds a .json file.  An exception of fit leaves main().
Main ==
  /\ pipeline = None
  /\ \E has_json \in BOOLEAN :
       LET r == train_classifier(corpus)
       IN  pipeline' = IF ~has_json THEN Pipeline("done", None)
                       ELSE IF r.raised THEN Pipeline("raised", None)
                       ELSE IF r.classifier = None THEN Pipeline("done", None)
                       ELSE Pipeline("files", r.classifier)
  /\ UNCHANGED <<corpus, saved_files, provisioned>>
  /\ UNCHANGED service_vars

\* Lines 426-428 and 376-385: the loop takes the next JSON file, if any;
\* a file that cannot be read or parsed is skipped (line 399).  The case it
\* names has a folder under output/ or has none yet.
ProcessJsonFile ==
  /\ pipeline # None
  /\ pipeline.pc = "files"
  /\ \/ pipeline' = [pipeline EXCEPT !.pc = "done"]
     \/ \E parses \in BOOLEAN,
           case_name \in Range(pipeline.listdir) \cup {Len(pipeline.listdir) + 1} :
          pipeline' = IF parses
                      THEN [pipeline EXCEPT !.pc = "slides", !.case_name = case_name]
                      ELSE pipeline
  /\ UNCHANGED <<corpus, saved_files, provisioned>>
  /\ UNCHANGED service_vars

\* Lines 387-395 and 318-339: the loop takes the next slide, if any, and
\* makes its folders; an exception of os.makedirs ends the work on the file
\* (line 399).
ProcessSlide ==
  /\ pipeline # None
  /\ pipeline.pc = "slides"
  /\ \/ /\ pipeline' = [pipeline EXCEPT !.pc = "files"]
        /\ UNCHANGED <<corpus, provisioned>>
     \/ /\ pipeline.n_slides < MaxSlides
        /\ \E category \in SlideCategories, at \in {1, Len(pipeline.listdir) + 1} :
             IF ~Dispatched(category)
             THEN /\ pipeline' = [pipeline EXCEPT !.n_slides = @ + 1]
                  /\ UNCHANGED <<corpus, provisioned>>
             ELSE LET category_folder == category_mapping(category)
                      r == IF should_classify(category)
                           THEN create_classification_folders(
                                  corpus, pipeline.listdir, pipeline.case_name,
                                  category_folder, at)
                           ELSE [made |-> {}] @@
                                makedirs(Tree(corpus.output, pipeline.listdir),
                                         pipeline.case_name, category_folder, <<>>, at)
                  IN  /\ corpus' = [corpus EXCEPT !.output = r.fs.output]
                      /\ provisioned' = provisioned \cup r.made
                      /\ pipeline' =
                           [pipeline EXCEPT
                              !.pc = IF r.raised THEN "files" ELSE "images",
                              !.n_slides = @ + 1,
                              !.listdir = r.fs.listdir,
                              !.category = category,
                              !.should_classify = should_classify(category),
                              !.i = 0]
  /\ UNCHANGED saved_files
  /\ UNCHANGED service_vars

\* Lines 341-374: the loop takes the next image of the slide, if any.
ProcessImage ==
  /\ pipeline # None
  /\ pipeline.pc = "images"
  /\ \/ /\ pipeline' = [pipeline EXCEPT !.pc = "slides"]
        /\ UNCHANGED <<corpus, saved_files>>
     \/ /\ pipeline.n_images < MaxImages
        /\ \E image_info \in ImageInfos, at \in {1, Len(pipeline.listdir) + 1} :
             LET r == process_image(Tree(corpus.output, pipeline.listdir),
                                    pipeline.classifier, argsort_kind,
                                    pipeline.case_name, pipeline.category,
                                    pipeline.should_classify, pipeline.i,
                                    image_info, at,
                                    {saved_files[n].path : n \in 1..Len(saved_files)})
             IN  /\ corpus' = [corpus EXCEPT !.output = r.fs.output]
                 /\ saved_files' = saved_files \o r.saved
                 /\ pipeline' = [pipeline EXCEPT !.i = @ + 1,
                                                 !.n_images = @ + 1,
                                                 !.listdir = r.fs.listdir]
  /\ UNCHANGED provisioned
  /\ UNCHANGED service_vars

\* The corpora main() is started on: those of the service, output/ empty
\* next to labeled_samples/, and output/ with a plain file listed first.
BatchCorpora ==
  ServiceCorpora
    \cup {MkCorpus(Listing(<<>>), Listing(<<LeftDir, RightDir>>)),
          MkCorpus(Listing(<<StrayCase, CaseDir(Listing(<<RightDir, LeftDir>>), None)>>),
                   None)}

InitBatch ==
  /\ InitServer(BatchCorpora)
  /\ argsort_kind = "stable"
  /\ raw_image = None
  /\ crop_call = None
  /\ augment_call = None
  /\ training_data = None
  /\ InitPipeline

NextBatch == Main \/ ProcessJsonFile \/ ProcessSlide \/ ProcessImage

SpecBatch == InitBatch /\ [][NextBatch]_vars

(* ------------------------------- claims -------------------------------- *)

ModelNotTrained == HTTPException(400, "Model not trained yet. Call /train first.")
NoTrainingData ==
  HTTPException(400, "Failed to train classifier (no training data found)")

\* A step of handler p from the position at to some other position of the
\* same request (a restart puts every handler back to "idle").
Leaves(p, at) == pc[p] = at /\ pc'[p] \notin {at, "idle"}

\* C1: a train() that fails, because the loader finds no data or because
\* fitting raises, changes neither the resident model nor the persisted
\* artifact and answers with a failure; and a classify that then passes the
\* lock while a model is resident takes exactly that model and leaves it
\* resident.
C1_FailedTrainKeepsModel ==
  [][\A p \in Procs :
       /\ (Leaves(p, "train_fit") /\ pc'[p] = "done")
            => /\ _classifier' = _classifier
               /\ model_file' = model_file
               /\ response'[p].status # 200
       /\ (Leaves(p, "classify_load") /\ _classifier # None)
            => /\ classifier'[p] = _classifier
               /\ _classifier' = _classifier
               /\ model_file' = model_file]_vars

\* A model is resident and persisted, one train has just failed for want of
\* data and another because fitting raised.
C1_Witness ==
  /\ _classifier # None
  /\ model_file # None
  /\ \E p, q \in Procs :
       /\ pc[p] = "done" /\ response[p] = NoTrainingData
       /\ pc[q] = "done" /\ response[q] = InternalServerError

InCritical(p) ==
  pc[p] \in {"train_fit", "train_save", "train_set", "train_unlock",
             "classify_load", "classify_unlock"}

\* C3: at most one request is inside train's critical section or the
\* lazy-load section, the request inside is the one holding the lock, and
\* every step that installs a model in _classifier or writes the artifact is
\* a step of the request holding the lock.
C3_WritesUnderLock ==
  /\ [](\A p, q \in Procs :
          /\ (InCritical(p) /\ InCritical(q)) => p = q
          /\ InCritical(p) => _classifier_lock = p)
  /\ [][((_classifier' # _classifier /\ _classifier' # None)
            \/ model_file' # model_file)
         => /\ _classifier_lock # Unlocked
            /\ _classifier_lock' = _classifier_lock
            /\ pc[_classifier_lock] \in {"train_save", "train_set", "classify_load"}
            /\ pc'[_classifier_lock] # pc[_classifier_lock]]_vars

\* A train is about to swap the model in while a classify waits for the lock.
C3_Witness ==
  \E p, q \in Procs :
    /\ pc[p] = "train_set"
    /\ pc[q] = "classify_lock"
    /\ _classifier # None

\* C4: a classify that passes the lock while no model is resident and no
\* artifact exists leaves _classifier empty, gets no model, and is answered
\* with "Model not trained yet".
C4_ModelNotTrained ==
  [][\A p \in Procs :
       /\ (Leaves(p, "classify_load") /\ _classifier = None /\ model_file = None)
            => /\ _classifier' = None
               /\ classifier'[p] = None
       /\ (Leaves(p, "classify_check") /\ classifier[p] = None)
            => /\ pc'[p] = "done"
               /\ response'[p] = ModelNotTrained
               /\ _classifier' = _classifier]_vars

\* A classify was answered "Model not trained yet" with nothing resident and
\* nothing persisted.
C4_Witness ==
  /\ _classifier = None
  /\ model_file = None
  /\ \E p \in Procs : pc[p] = "done" /\ response[p] = ModelNotTrained

\* C5: after a restart that found a trained model resident (the lock free),
\* and until the next train saves, a classify that passes the lock gets that
\* model back from the artifact and makes it resident, is not answered
\* "Model not trained yet", and answers every image as that model did.
C5_PersistenceRoundTrip ==
  [][\A p \in Procs :
       before_restart # None =>
         /\ Leaves(p, "classify_load")
              => /\ classifier'[p] = before_restart
                 /\ _classifier' = before_restart
         /\ Leaves(p, "classify_check") => response'[p] # ModelNotTrained
         /\ Leaves(p, "classify_label")
              => response'[p] =
                   PredictionResponse(
                     FinalLabel(classify_image(before_restart, image[p].emb,
                                               argsort_kind)))]_vars

\* After a restart a classify has answered with a prediction from the model
\* that was lazily loaded, which is the one resident before the restart.
C5_Witness ==
  /\ before_restart # None
  /\ _classifier = before_restart
  /\ \E p \in Procs : pc[p] = "done" /\ response[p].detail = "prediction"

\* A file the loaders turn into samples: a recognised extension, bytes that
\* decode, an image the encoder accepts.
UsableFile(f) == HasImageExt(f.ext) /\ f.content.decodes /\ f.content.emb \in Embeds

HasUsableImage(item) ==
  item.isdir /\ \E j \in 1..Len(item.files) : UsableFile(item.files[j])

\* The label-level entries of the primary corpus, all cases and both kinds.
ItemsOfCase(case) ==
  UNION {LET listing == CategoryListing(case, categories_with_classification[k])
         IN  IF listing = None THEN {} ELSE Range(listing.items) :
           k \in 1..Len(categories_with_classification)}

PrimaryItems(c) ==
  IF c.output = None THEN {}
  ELSE UNION {ItemsOfCase(c.output.items[i]) :
                i \in {n \in 1..Len(c.output.items) : c.output.items[n].isdir}}

LabeledItems(c) == IF c.labeled = None THEN {} ELSE Range(c.labeled.items)

NoUsableImage(c) ==
  \A item \in PrimaryItems(c) \cup LabeledItems(c) : ~HasUsableImage(item)

\* C6 (as claimed): a train() on corpora without any usable labeled image is
\* answered with the 400 "no training data found" failure, however the
\* corpora come to be empty.
C6_EmptyCorporaAreNoTrainingData ==
  [][\A p \in Procs :
       (Leaves(p, "train_fit") /\ NoUsableImage(corpus))
         => response'[p] = NoTrainingData]_vars

\* C7 (as claimed): a train() whose loaded data carry exactly one distinct
\* label ends with the trainer's no-data failure, and installs no model.
C7_OneLabelIsNoData ==
  [][\A p \in Procs :
       LET d == load_training_data_from_output(corpus)
       IN  (/\ Leaves(p, "train_fit")
            /\ d # None
            /\ ~d.raised
            /\ Cardinality(Range(d.y)) = 1)
             => /\ response'[p] = NoTrainingData
                /\ _classifier' = _classifier]_vars

\* The primary corpus has at least two labels and every label directory of
\* it holds a usable image.
TwoLabelsEachWithImage(c) ==
  /\ Cardinality({item.name : item \in PrimaryItems(c)}) >= 2
  /\ \A item \in PrimaryItems(c) : HasUsableImage(item)

C9_TopLabelFirstOnTies ==
  \A p \in Procs :
    (pc[p] = "classify_label" /\ image[p].emb \in Embeds)
      => LET probs == predict_proba(classifier[p], image[p].emb)
             first == CHOOSE i \in DOMAIN probs :
                        /\ \A j \in DOMAIN probs : probs[j] <= probs[i]
                        /\ \A j \in 1..(i - 1) : probs[j] < probs[i]
         IN  predicted_label[p] = classifier[p].classes_[first]

\* C10 (as amended): the response label is "Right" when the predicted label,
\* trimmed and lower-cased, is "left", "Left" when it is "right", and any
\* other predicted label with its surrounding whitespace trimmed.
C10_SwapLeftRight ==
  [][\A p \in Procs :
       Leaves(p, "classify_label") =>
         LET trimmed == Strip(predicted_label[p])
         IN  /\ Lower(trimmed) = S_left => response'[p].prediction = S_Right
             /\ Lower(trimmed) = S_right => response'[p].prediction = S_Left
             /\ Lower(trimmed) \notin {S_left, S_right}
                  => response'[p].prediction = trimmed]_vars

\* C10 (as claimed): as above, but any other predicted label is returned as
\* predicted.
C10_OtherLabelsAsPredicted ==
  [][\A p \in Procs :
       Leaves(p, "classify_label") =>
         LET trimmed == Strip(predicted_label[p])
         IN  /\ Lower(trimmed) = S_left => response'[p].prediction = S_Right
             /\ Lower(trimmed) = S_right => response'[p].prediction = S_Left
             /\ Lower(trimmed) \notin {S_left, S_right}
                  => response'[p].prediction = predicted_label[p]]_vars

\* A classify has answered "Upper" for the class of the directory "Upper ",
\* the model also knowing " left" and "RIGHT ".
C10_Witness ==
  \E p \in Procs :
    /\ pc[p] = "done"
    /\ response[p].detail = "prediction"
    /\ response[p].prediction = S_Upper
    /\ _classifier # None
    /\ _classifier.classes_ = <<S_sp_left, S_RIGHT_sp, S_Upper_sp>>

ClipPositions ==
  {"clip_fast", "clip_lock", "clip_recheck", "clip_stack", "clip_norm",
   "clip_return", "clip_read", "clip_predict"}

\* A step of a classify_clip request of handler p (the process going down is
\* not a step of the request).
ClipStep(p) ==
  \/ pc[p] \in ClipPositions /\ pc'[p] \notin {pc[p], "idle"}
  \/ pc[p] = "idle" /\ pc'[p] = "clip_fast"

\* C11: no step of a classify_clip request changes the resident model, the
\* classifier lock or the persisted artifact, and the response is the one
\* the upload and the prompt embeddings determine, whatever the state of the
\* trained classifier.
C11_ZeroShotLeavesClassifierAlone ==
  [][\A p \in Procs :
       /\ ClipStep(p)
            => /\ _classifier' = _classifier
               /\ _classifier_lock' = _classifier_lock
               /\ model_file' = model_file
       /\ Leaves(p, "clip_predict")
            => response'[p] =
                 IF image[p].emb \notin Embeds THEN ClipFailed
                 ELSE PredictionResponse(
                        _clip_labels[argmax(Logits(image[p].emb, text_embs[p]))])]_vars

\* A classify_clip has answered with a prediction while a train holds the
\* classifier lock, about to replace a resident model, after an earlier
\* classify_clip answered with nothing trained.
C11_Witness ==
  \E p, q \in Procs :
    /\ pc[p] = "done"
    /\ response[p].detail = "prediction"
    /\ response[p].classes = <<>>
    /\ response[p].prediction \in Range(_clip_labels)
    /\ _classifier_lock = q
    /\ pc[q] = "train_set"
    /\ _classifier # None

\* C12: every successful classify_clip response carries one of the five
\* labels of _clip_labels: the one at the first index of the highest
\* similarity between the image and the prompt embeddings in use, "Left" and
\* "Right" not exchanged.
C12_ZeroShotPrediction ==
  [][\A p \in Procs :
       (Leaves(p, "clip_predict") /\ response'[p].status = 200)
         => LET sims == Logits(image[p].emb, text_embs[p])
                best == CHOOSE i \in DOMAIN sims :
                          /\ \A j \in DOMAIN sims : sims[j] <= sims[i]
                          /\ \A j \in 1..(i - 1) : sims[j] < sims[i]
            IN  /\ response'[p].prediction
                     \in {S_Frontal, S_Left, S_Right, S_Upper, S_Lower}
                /\ response'[p].prediction = _clip_labels[best]
                /\ best = 2 => response'[p].prediction = S_Left
                /\ best = 3 => response'[p].prediction = S_Right]_vars

\* A classify_clip has answered "Left", the label of the highest similarity.
C12_Witness ==
  \E p \in Procs :
    /\ pc[p] = "done"
    /\ response[p] = PredictionResponse(S_Left)
    /\ _clip_text_embs = RowNormalize(stack)

\* C13 (as claimed): a classify request whose upload is turned down at the
\* content-type and file-name test, or whose bytes do not decode, is answered
\* with the invalid-media rejection whatever the state of the model, and no
\* step of it changes the resident model or loads the artifact.
C13_InvalidMediaBeforeModelWork ==
  [][\A p \in Procs :
       /\ (pc[p] = "idle" /\ pc'[p] = "done")
            => /\ response'[p] = UploadRejected
               /\ _classifier' = _classifier
       /\ (image[p] = Upload(FALSE) /\ Leaves(p, "classify_load"))
            => _classifier' = _classifier
       /\ (image[p] = Upload(FALSE) /\ Leaves(p, "classify_check"))
            => response'[p] = InvalidImageData]_vars

\* An artifact this build cannot use: no estimator, or one fitted on vectors
\* of another length.
IncompatibleArtifact(f) ==
  \/ f.bytes[1] # "LogisticRegression"
  \/ f.bytes[4] # EmbeddingDim

\* C14 (as claimed): loading an artifact of another embedding dimensionality
\* or of an incompatible schema ends the request with an error, and no
\* classify request that holds the object of such an artifact is answered
\* with a successful prediction.
C14_IncompatibleArtifactFailsFast ==
  [][\A p \in Procs :
       /\ (/\ Leaves(p, "classify_load")
           /\ _classifier = None
           /\ model_file # None
           /\ IncompatibleArtifact(model_file))
            => /\ pc'[p] = "done"
               /\ response'[p].status # 200
       /\ (Leaves(p, "classify_label") /\ PredictProbaRaises(classifier[p]))
            => response'[p].status # 200]_vars

\* C15 (as claimed): a classify request during which the encoder or
\* predict_proba raises ends in a failure response, never in a successful
\* prediction.
C15_InferenceFailureIsReported ==
  [][\A p \in Procs :
       (/\ Leaves(p, "classify_label")
        /\ (image[p].emb \notin Embeds \/ PredictProbaRaises(classifier[p])))
         => /\ response'[p].status # 200
            /\ response'[p].prediction = <<>>]_vars

\* C16: for every photo size and every offset tuple (negative offsets,
\* offsets above 1 and offsets that invert the box included) the crop box
\* satisfies 0 <= left <= right <= W and 0 <= top <= bottom <= H, and the
\* call returns the crop of that box, of non-negative width and height.
C16_CropBoxInsideImage ==
  crop_call # None =>
    LET left == crop_call.box[1]
        top == crop_call.box[2]
        right == crop_call.box[3]
        bottom == crop_call.box[4]
    IN  /\ 0 <= left /\ left <= right /\ right <= raw_image.width
        /\ 0 <= top /\ top <= bottom /\ bottom <= raw_image.height
        /\ crop_call.rotation_degrees = 0
             => /\ crop_call.result.width = right - left
                /\ crop_call.result.height = bottom - top

\* The normalizer was called with a negative offset, an offset above 1, and
\* offsets that invert the box in height, and returned an image of height 0.
C16_Witness ==
  /\ crop_call # None
  /\ crop_call.crop_properties.leftOffset < 0
  /\ crop_call.crop_properties.rightOffset > OffsetDen
  /\ crop_call.crop_properties.topOffset + crop_call.crop_properties.bottomOffset
       > OffsetDen
  /\ crop_call.crop_properties.topOffset \in 1..(OffsetDen - 1)
  /\ raw_image.height > 1
  /\ crop_call.rotation_degrees = 0
  /\ crop_call.result.height = 0

\* C17 (as claimed): for offsets in [0, 1] with the left bound below the
\* right bound and the top bound below the bottom bound, as fractions of the
\* image, the normalized image has width > 0 and height > 0.
C17_ProperBoxGivesPixels ==
  (/\ crop_call # None
   /\ \A o \in {crop_call.crop_properties.leftOffset,
                crop_call.crop_properties.rightOffset,
                crop_call.crop_properties.topOffset,
                crop_call.crop_properties.bottomOffset} : o \in 0..OffsetDen
   /\ crop_call.crop_properties.leftOffset
        < OffsetDen - crop_call.crop_properties.rightOffset
   /\ crop_call.crop_properties.topOffset
        < OffsetDen - crop_call.crop_properties.bottomOffset)
    => /\ crop_call.result.width > 0
       /\ crop_call.result.height > 0

\* C18: for the mode "original" and for every mode that is none of flip,
\* rotate+10, rotate-10, bright and contrast, augment_image returns the image
\* it was given.
C18_OtherModesAreIdentity ==
  (/\ augment_call # None
   /\ augment_call.mode \notin {"flip", "rotate+10", "rotate-10", "bright", "contrast"})
    => augment_call.result = raw_image

\* augment_image was called with the mode "Flip", which is none of the five,
\* on a photo that flip would change.
C18_Witness ==
  /\ augment_call # None
  /\ augment_call.mode = "Flip"
  /\ augment_call.result = raw_image
  /\ mirror(raw_image) # raw_image

\* The label directories of a listing, each with its place in the walk.
DirsAt(listing, tag) ==
  IF listing = None THEN {}
  ELSE {[at |-> <<tag, i>>, dir |-> listing.items[i]] :
          i \in {n \in 1..Len(listing.items) : listing.items[n].isdir}}

PrimaryDirs(c) ==
  IF c.output = None THEN {}
  ELSE UNION {DirsAt(CategoryListing(c.output.items[ci],
                                     categories_with_classification[k]), <<ci, k>>) :
                ci \in {n \in 1..Len(c.output.items) : c.output.items[n].isdir},
                k \in 1..Len(categories_with_classification)}

LabeledDirs(c) == DirsAt(c.labeled, <<0, 0>>)

\* The a-th variant of file f is embedded.
Reaches(f, a) ==
  /\ HasImageExt(f.ext)
  /\ f.content.decodes
  /\ f.content.raises_at = 0 \/ a < f.content.raises_at

\* The files under the directories named label whose a-th variant is
\* embedded with encoder output e.
Contributors(dirs, label, e, a) ==
  UNION {{<<d.at, j>> : j \in {n \in 1..Len(d.dir.files) :
                                  /\ Reaches(d.dir.files[n], a)
                                  /\ d.dir.files[n].content.emb = e}} :
           d \in {x \in dirs : x.dir.name = label}}

\* The pairs of a loader's result with that label, encoder output and mode.
Pairs(r, label, e, a) ==
  {k \in 1..Len(r.y) :
     r.y[k] = label /\ r.X[k] = get_image_embedding(e, AUGMENTATIONS[a])}

\* The directories a call walks for samples: those of labeled_samples/ for
\* the fallback, and for the primary loader those of output/ unless they
\* yield no pair.
WalkedDirs(call, c) ==
  IF call.fn = "load_labeled_data_fallback" THEN LabeledDirs(c)
  ELSE IF \E d \in PrimaryDirs(c) :
            \E j \in 1..Len(d.dir.files) : Reaches(d.dir.files[j], 1)
  THEN PrimaryDirs(c)
  ELSE LabeledDirs(c)

\* A plain file stands where a discovered label directory is looked for.
StrayLabelFile(c) ==
  /\ c.output # None
  /\ \E ci \in 1..Len(c.output.items), k \in 1..Len(categories_with_classification) :
       /\ c.output.items[ci].isdir
       /\ CategoryListing(c.output.items[ci], categories_with_classification[k]) # None
       /\ \E item \in Range(CategoryListing(c.output.items[ci],
                                            categories_with_classification[k]).items) :
            /\ ~item.isdir
            /\ \E d \in PrimaryDirs(c) : d.dir.name = item.name

\* C19 (as claimed): in the result of a load the two lists have the same
\* length, and every image contributes one pair per augmentation mode or no
\* pair at all, each under its folder's label: for every label and encoder
\* output, every mode has the same number of pairs.
C19_SixPairsOrNone ==
  (/\ training_data # None
   /\ training_data.result # None
   /\ ~training_data.result.raised)
    => LET r == training_data.result
       IN  /\ Len(r.X) = Len(r.y)
           /\ \A label \in Range(r.y), e \in Embeds :
                \A a, b \in 1..Len(AUGMENTATIONS) :
                  Cardinality(Pairs(r, label, e, a)) = Cardinality(Pairs(r, label, e, b))

\* C20: an image that fails to decode or to be processed does not end a
\* load: a load returns nothing only where a corpus root is missing, raises
\* only where a plain file stands for a label directory, and otherwise its
\* result holds, for every image of the directories walked and every variant
\* of it that is embedded, one pair under the folder's label, and nothing
\* else, whatever failed before that image.
C20_ImageFailuresAreSkipped ==
  training_data # None =>
    LET r == training_data.result
        dirs == WalkedDirs(training_data, corpus)
    IN  IF r = None
        THEN \/ corpus.labeled = None
             \/ (training_data.fn = "load_training_data_from_output"
                 /\ corpus.output = None)
        ELSE /\ r.raised => (training_data.fn = "load_training_data_from_output"
                             /\ StrayLabelFile(corpus))
             /\ ~r.raised =>
                  \A label \in Range(r.y) \cup {d.dir.name : d \in dirs} :
                    \A e \in Embeds, a \in 1..Len(AUGMENTATIONS) :
                      Cardinality(Pairs(r, label, e, a))
                        = Cardinality(Contributors(dirs, label, e, a))

\* A load walked a directory whose first file does not decode and whose
\* second does, and returned the six pairs of the second.
C20_Witness ==
  /\ training_data # None
  /\ training_data.fn = "load_training_data_from_output"
  /\ corpus.output # None
  /\ corpus.output.items # <<>>
  /\ Head(corpus.output.items).pre = Listing(<<LabelDir(S_Left, <<Jpg(Corrupt), Jpg(Img(1))>>)>>)
  /\ training_data.result # None
  /\ ~training_data.result.raised
  /\ Len(training_data.result.X) >= Len(AUGMENTATIONS)
  /\ training_data.result.y[1] = S_Left

\* The primary corpus yields a sample: some image under a label directory of
\* output/ decodes and has its first variant embedded.
PrimaryYields(c) ==
  \E d \in PrimaryDirs(c) :
    \E j \in 1..Len(d.dir.files) : Reaches(d.dir.files[j], 1)

\* C21 (as claimed): whenever the primary corpus yields no sample (output/
\* missing, no case folder, no label folder, no decodable image) the primary
\* loader returns what the loader of labeled_samples/ returns, and it returns
\* the samples of the primary corpus exactly when that yields one; corpora
\* where a plain file stands for a label directory are left aside.
C21_FallbackWhenPrimaryEmpty ==
  (/\ training_data # None
   /\ training_data.fn = "load_training_data_from_output"
   /\ ~StrayLabelFile(corpus))
    => LET r == training_data.result
       IN  IF PrimaryYields(corpus)
           THEN /\ r # None
                /\ \A label \in Range(r.y), e \in Embeds, a \in 1..Len(AUGMENTATIONS) :
                     Cardinality(Pairs(r, label, e, a))
                       = Cardinality(Contributors(PrimaryDirs(corpus), label, e, a))
           ELSE r = load_labeled_data_fallback(corpus)

C26_FetchLeavesNoFileOnFailure ==
  (fetch_call # None /\ fetch_call.before = None)
    => /\ fetch_call.returned => fetch_call.file = FileOf("image")
       /\ ~fetch_call.returned => fetch_call.file = None

\* The class folders create_classification_folders has made or found for a
\* case and a category folder.
ProvisionedFor(case_name, category_folder) ==
  {f.class_name : f \in {g \in provisioned : /\ g.case_name = case_name
                                             /\ g.category_folder = category_folder}}

\* C23 (as claimed): every file saved from a PRE_TREATMENT or POST_TREATMENT
\* slide lies in a label folder that create_classification_folders has
\* provisioned for its case and category, and the folders provisioned there
\* are the classes of the classifier main() trained.
C23_SavedUnderProvisionedTaxonomy ==
  \A n \in 1..Len(saved_files) :
    saved_files[n].category \in {"PRE_TREATMENT", "POST_TREATMENT"}
      => LET path == saved_files[n].path
         IN  /\ Len(path) = 5
             /\ path[4] \in ProvisionedFor(path[2], path[3])
             /\ ProvisionedFor(path[2], path[3]) = Range(pipeline.classifier.classes_)

\* C24: every saved file lies under output/<case>/, a file of a
\* PRE_TREATMENT or POST_TREATMENT slide in a label folder of preTreatment or
\* postTreatment, a file of a radiograph or smile-summary slide directly in
\* pre_treatment_radiograph or smile_summary; no file comes from a slide of
\* another category, from a logo image or from an image without url.
C24_SavedFilesLayout ==
  \A n \in 1..Len(saved_files) :
    LET path == saved_files[n].path
        category == saved_files[n].category
        image_info == saved_files[n].image_info
    IN  /\ path[1] = "output"
        /\ path[2] \in Range(pipeline.listdir)
        /\ category = "PRE_TREATMENT"
             => Len(path) = 5 /\ path[3] = "preTreatment" /\ path[4] # <<>>
        /\ category = "POST_TREATMENT"
             => Len(path) = 5 /\ path[3] = "postTreatment" /\ path[4] # <<>>
        /\ category = "PRE_TREATMENT_RADIOGRAPH"
             => Len(path) = 4 /\ path[3] = "pre_treatment_radiograph"
        /\ category = "SMILE_SUMMARY"
             => Len(path) = 4 /\ path[3] = "smile_summary"
        /\ category \in {"PRE_TREATMENT", "POST_TREATMENT",
                         "PRE_TREATMENT_RADIOGRAPH", "SMILE_SUMMARY"}
        /\ image_info.assumedCategory # "ZENYUM_LOGO"
        /\ image_info.downloadUrl
        /\ \E i \in 0..(MaxImages - 1) :
             path[Len(path)] = FileName(image_info, path[2], category, i)

\* main() has gone through a slide of two images and has saved one file,
\* into the label folder of the class predicted for it.
C24_Witness ==
  /\ pipeline # None
  /\ pipeline.n_images = 2
  /\ Len(saved_files) = 1
  /\ saved_files[1].category = "POST_TREATMENT"
  /\ saved_files[1].path[3] = "postTreatment"
  /\ saved_files[1].path[4] = S_Right

\* What classify answers for the model state as it is: true when line 109
\* yields no classifier, so that line 112 raises.
ClassifyFindsNoModel ==
  LET r == _load_classifier_from_disk(_classifier, model_file)
  IN  ~r.raised /\ r.result = None

HealthAnswers(p) ==
  /\ pc[p] = "idle"
  /\ pc'[p] = "done"
  /\ response'[p].detail = "ok"

\* C25: when health answers, model_present is true exactly when a model is
\* resident or MODEL_PATH holds a file, which is exactly when a classify
\* served in that state would not answer "Model not trained yet"; the handler
\* changes nothing but its own response.
C25_HealthTellsModelAvailable ==
  [][\A p \in Procs :
       HealthAnswers(p)
         => /\ response'[p].model_present
                 = (_classifier # None \/ model_file # None)
            /\ response'[p].model_present = ~ClassifyFindsNoModel
            /\ UNCHANGED <<_classifier, _classifier_lock, model_file, corpus,
                           clip_vars>>
            /\ \A q \in Procs \ {p} :
                 /\ pc'[q] = pc[q]
                 /\ classifier'[q] = classifier[q]
                 /\ response'[q] = response[q]]_vars

\* After a restart no model is resident, the file is there, and health has
\* answered that a model is present.
C25_Witness ==
  \E p \in Procs :
    /\ pc[p] = "done"
    /\ response[p] = HealthResponse(TRUE)
    /\ _classifier = None
    /\ model_file # None

\* A fitted estimator as a whole: one row of coefficients for each of its
\* two or more classes.
CompleteModel(m) ==
  /\ m # None
  /\ Len(m.classes_) >= 2
  /\ Len(m.coef_) = Len(m.classes_)

\* C27: the classifier a classify request binds inside the lock (line 109)
\* is the resident model of that moment, a complete model equal to what the
\* last finished train wrote and set; the request keeps it until it answers,
\* whatever a train does meanwhile, and predicts with it.
C27_ClassifyUsesOneResidentModel ==
  [][\A p \in Procs :
       /\ (Leaves(p, "classify_load") /\ classifier'[p] # None)
            => /\ classifier'[p] = _classifier'
               /\ CompleteModel(classifier'[p])
               /\ classifier'[p] = pickle_load(model_file)
               /\ \A q \in Procs : pc[q] \notin {"train_fit", "train_save",
                                                 "train_set", "train_unlock"}
       /\ (pc[p] \in {"classify_unlock", "classify_check"}
             /\ pc'[p] \in {"classify_unlock", "classify_check", "classify_label"})
            => classifier'[p] = classifier[p]
       /\ (Leaves(p, "classify_check") /\ pc'[p] = "classify_label")
            => predicted_label'[p]
                 = classify_image(classifier[p], image'[p].emb, argsort_kind)]_vars

\* A classify is about to predict with the model it bound while a train that
\* finished since has made another model resident.
C27_Witness ==
  \E p \in Procs :
    /\ pc[p] = "classify_check"
    /\ classifier[p] # None
    /\ _classifier # None
    /\ _classifier # classifier[p]
    /\ _classifier_lock = Unlocked

\* The positions inside the with blocks of train (lines 90-95) and classify
\* (line 109).
WithBlock ==
  {"train_fit", "train_save", "train_set", "train_unlock",
   "classify_load", "classify_unlock"}

\* The lock is held only by a handler inside its with block.
LockHeldInsideWith ==
  /\ _classifier_lock # Unlocked => pc[_classifier_lock] \in WithBlock
  /\ \A p \in Procs : pc[p] \in WithBlock => _classifier_lock = p

\* Some handler can take a step.
NotDeadlocked ==
  \E p \in Procs :
    \/ pc[p] \notin {"train_lock", "classify_lock"}
    \/ _classifier_lock = Unlocked

\* C28: a handler holds the lock only inside its with block and gives it up
\* when it leaves, whether it leaves by success, by the no-data answer or by
\* an exception of loading, fitting or saving; every handler waiting for the
\* lock gets it, and some handler can always take a step.
C28_LockAlwaysReleased ==
  /\ [](LockHeldInsideWith /\ NotDeadlocked)
  /\ \A p \in Procs : (_classifier_lock = p) ~> (_classifier_lock # p)
  /\ \A p \in Procs :
       (pc[p] \in {"train_lock", "classify_lock"}) ~> (_classifier_lock = p)

\* A train has ended with an exception and another handler has the lock.
C28_Witness ==
  \E p, q \in Procs :
    /\ p # q
    /\ pc[p] = "done"
    /\ response[p] = InternalServerError
    /\ model_file = TruncatedFile
    /\ _classifier_lock = q
    /\ pc[q] = "classify_load"

\* C29: the prompt matrix is computed at most once, that is, only while the
\* shared variable is empty, and the finished matrix is never replaced; every
\* value a caller of _ensure_clip_text_embeddings gets is the row-normalized
\* matrix, never the stacked means assigned before the normalization.
C29_PromptMatrixOnceAndFinal ==
  [][/\ \A p \in Procs : text_embs'[p] \in {None, RowNormalize(stack)}
     /\ (\E p \in Procs : pc[p] = "clip_stack" /\ pc'[p] = "clip_norm")
          => _clip_text_embs = None
     /\ _clip_text_embs = RowNormalize(stack)
          => _clip_text_embs' = _clip_text_embs
     /\ _clip_text_embs = stack
          => _clip_text_embs' \in {stack, RowNormalize(stack)}]_vars

\* One request has computed the matrix and waits for its upload; a second
\* one has taken the matrix on the fast path.
C29_Witness ==
  \E p, q \in Procs :
    /\ p # q
    /\ pc[p] = "clip_read"
    /\ pc[q] = "clip_read"
    /\ text_embs[p] = RowNormalize(stack)
    /\ text_embs[q] = RowNormalize(stack)
    /\ _clip_text_embs = RowNormalize(stack)

\* The process goes down: every handler is gone and nothing is resident.
Restarts == _classifier' = None /\ \A p \in Procs : pc'[p] = "idle"

\* C30: a resident model is replaced only by the assignment of a train
\* (line 95) and is what line 109 returns, whatever MODEL_PATH holds by then;
\* while nothing is resident, line 109 looks at MODEL_PATH each time: without
\* a file it returns None and leaves the global empty, with a readable file
\* it returns and installs the model of that file.
C30_ResidentModelIsNotReread ==
  [][/\ _classifier # None
          => \/ _classifier' = _classifier
             \/ \E p \in Procs : /\ pc[p] = "train_set"
                                 /\ pc'[p] = "train_unlock"
                                 /\ _classifier' = classifier[p]
             \/ Restarts
     /\ \A p \in Procs :
          Leaves(p, "classify_load")
            => IF _classifier # None
               THEN classifier'[p] = _classifier /\ _classifier' = _classifier
               ELSE IF model_file = None
               THEN classifier'[p] = None /\ _classifier' = None
               ELSE /\ pc'[p] = "done" <=> PickleLoadRaises(model_file)
                    /\ pc'[p] # "done"
                         => /\ classifier'[p] = pickle_load(model_file)
                            /\ _classifier' = pickle_load(model_file)]_vars

\* No train succeeds on this corpus, so the resident model was loaded from a
\* file that appeared at MODEL_PATH; the file has been replaced by another
\* model since, and a classify has been given the resident one.
C30_Witness ==
  \E p \in Procs :
    /\ train_classifier(corpus).classifier = None
    /\ pc[p] = "classify_unlock"
    /\ classifier[p] = _classifier
    /\ _classifier \in TrainedModels
    /\ model_file \in {_save_classifier_to_disk(m) : m \in TrainedModels}
    /\ pickle_load(model_file) # _classifier

====
